---------------------------- MODULE Spec2Model ----------------------------
(* A model of the live-folder browser extension: the grouped-tabs          *)
(* reconciler (TabGroupHandler.syncTabs), the bookmark-folder reconciler   *)
(* (LiveFolder._syncBookmarks) and the sync round around them.             *)
(*                                                                         *)
(* A URL is a sequence of tokens (scheme, host, path segments), so that    *)
(* the code's substring tests (includes("github.com"), includes("/pull/")) *)
(* are tests on the URL's parts.  The empty sequence is a tab without a    *)
(* URL (tab.url undefined or "").                                          *)
EXTENDS Integers, Sequences, FiniteSets, TLC

VARIABLES
  env,        \* import.meta.env.BROWSER: "chrome" (tab groups) or "firefox" (bookmarks)
  hostDropsEmpty, \* whether the host deletes a tab group that has lost its last tab
  tabs,       \* the window's tab strip, left to right: records id, url, groupId, pinned
  groups,     \* the live tab groups: group id -> title, color, collapsed
  nextTabId,  \* the id the host gives the next created tab
  timers,     \* handles of the setTimeout timers that are pending
  nextTimer,  \* the handle the next setTimeout returns
  tgh,        \* TabGroupHandler's fields: currentGroupId, baseTitle, resetTitleTimer,
              \* and evicting: the tabs _ungroupAndPositionAfterGroup is pending on
  st,         \* the activation of syncTabs: its arguments, locals and position
  calls,      \* how many reconcile calls the driver has made
  hist,       \* what the claims need to remember about the calls made so far
  bookmarks,  \* the children of the bookmark folder: records id, url, title
  nextBookmarkId,
  sb,         \* the activation of _syncBookmarks
  folder,     \* the bookmark folder: its title, and the title the user gave it
  settings,   \* storage.local SETTINGS: the LiveFolderConfig record that is stored
  authenticated, \* GithubHandler._isAuthenticated
  authCheck,  \* whether the constructor's isAuthenticatedFromBrowser() is pending
  cookie,     \* whether the browser holds the cookie logged_in=yes
  alarmSet,   \* how many onAlarm listeners _setupAlarms has registered
  alarm,      \* periodInMinutes of the alarm UPDATE_PRS, NoAlarm when there is none
  initialized, \* LiveFolder._initialized
  sf,         \* the activations of init, syncFolder and the handlers that call it
  nextGroupId \* the id the host gives the next created group

vars == <<env, hostDropsEmpty, tabs, groups, nextTabId, timers, nextTimer,
          tgh, st, calls, hist, bookmarks, nextBookmarkId, sb, folder,
          settings, authenticated, authCheck, cookie, alarmSet, alarm, initialized, sf,
          nextGroupId>>

tabVars == <<hostDropsEmpty, tabs, groups, nextTabId, timers, nextTimer, tgh, st>>
bmVars == <<bookmarks, nextBookmarkId, sb, folder>>
roundVars == <<settings, authenticated, authCheck, cookie, alarmSet, alarm, initialized, sf,
               nextGroupId>>

--------------------------------------------------------------------------
(* Bounds of the model. *)

\* the tabs open when the first call starts
MaxInitTabs == 2
\* the bookmarks in the folder when the first call starts
MaxInitBookmarks == 3
\* the activations of syncTabs: one for the calls made directly, one for
\* each round of syncFolder
MaxRounds == 2
Acts == 1..MaxRounds
Direct == 1

--------------------------------------------------------------------------
(* URLs and pull requests. *)

NoUrl == <<>>
AboutBlank == <<"about:blank">>
OtherUrl == <<"https:", "example.com", "news">>
LoginUrl == <<"https:", "github.com", "login">>
PrUrl(n) == <<"https:", "github.com", "o", "r", "pull", n>>

\* the pull requests the item source can return, keyed by URL
AllPrs == { [url |-> PrUrl("1"), name |-> "Fix", number |-> 1, repository_name |-> "core"],
            [url |-> PrUrl("2"), name |-> "Add", number |-> 2, repository_name |-> "core"] }

RECURSIVE Perms(_)
Perms(S) == IF S = {} THEN { <<>> }
            ELSE UNION { { <<x>> \o p : p \in Perms(S \ {x}) } : x \in S }

\* the desired lists: every ordering of every subset of the pull requests
DesiredLists == UNION { Perms(S) : S \in SUBSET AllPrs }

Range(s) == { s[i] : i \in DOMAIN s }
UrlsOf(prs) == { prs[i].url : i \in DOMAIN prs }

Includes(url, part) == \E i \in DOMAIN url : url[i] = part

\* url.includes("github.com") && url.includes("/pull/")
IsPrUrl(url) == Includes(url, "github.com") /\ Includes(url, "pull")

--------------------------------------------------------------------------
(* The host's tabs and tab groups (chrome.tabs, chrome.tabGroups). *)

TAB_GROUP_ID_NONE == -1
NoGroup == -2       \* _currentGroupId === null
NoTimer == 0        \* _resetTitleTimer === null
NoAlarm == 0        \* browser.alarms.get gives undefined

PrGroup == 1        \* the id the extension holds for its group
UserGroup == 2      \* a group of the user's own

TabIds(ts) == { ts[i].id : i \in DOMAIN ts }
TabsOfGroup(ts, g) == SelectSeq(ts, LAMBDA t : t.groupId = g)
TabById(ts, id) == CHOOSE t \in Range(ts) : t.id = id

\* A group that has lost its last tab is deleted by a host that does not
\* allow empty groups.
DropEmptyGroups(ts, gs) ==
  IF hostDropsEmpty
    THEN [g \in { g \in DOMAIN gs : \E i \in DOMAIN ts : ts[i].groupId = g } |-> gs[g]]
    ELSE gs

\* chrome.tabs.remove(ids)
RemoveTabs(ts, ids) == SelectSeq(ts, LAMBDA t : t.id \notin ids)

\* chrome.tabs.create({url, active: false}): the new tab is appended, ungrouped
CreateTab(ts, id, url) ==
  Append(ts, [id |-> id, url |-> url, groupId |-> TAB_GROUP_ID_NONE, pinned |-> FALSE])

LastIndexOfGroup(ts, g) ==
  LET S == { i \in DOMAIN ts : ts[i].groupId = g }
  IN IF S = {} THEN 0 ELSE CHOOSE i \in S : \A j \in S : j <= i

InsertAt(ts, k, t) == SubSeq(ts, 1, k) \o <<t>> \o SubSeq(ts, k + 1, Len(ts))

\* chrome.tabs.group({tabIds: [id], groupId: g}) on a live group: the tab joins
\* the group and is moved next to the group's last tab
GroupTab(ts, id, g) ==
  LET t == TabById(ts, id)
      rest == RemoveTabs(ts, {id})
      last == LastIndexOfGroup(rest, g)
      joined == [t EXCEPT !.groupId = g, !.pinned = FALSE]
  IN IF t.groupId = g THEN ts
     ELSE IF last = 0
       THEN [i \in DOMAIN ts |-> IF ts[i].id = id THEN joined ELSE ts[i]]
       ELSE InsertAt(rest, last, joined)

RECURSIVE GroupTabs(_, _, _)
GroupTabs(ts, ids, g) ==
  IF ids = <<>> THEN ts ELSE GroupTabs(GroupTab(ts, Head(ids), g), Tail(ids), g)

\* chrome.tabs.move(ids, {index}): the tabs, in the given order, end at index
MoveTabs(ts, ids, index) ==
  LET moved == [i \in DOMAIN ids |-> TabById(ts, ids[i])]
      rest == RemoveTabs(ts, Range(ids))
      k == IF index > Len(rest) THEN Len(rest) ELSE index
  IN SubSeq(rest, 1, k) \o moved \o SubSeq(rest, k + 1, Len(rest))

IdsOf(ts) == [i \in DOMAIN ts |-> ts[i].id]


--------------------------------------------------------------------------
(* TabGroupHandler: the title with the count of new pull requests. *)

\* `${this._baseTitle} (${newPrCount} new)`
TitleWithCount(base, n) == base \o " (" \o ToString(n) \o " new)"

PrevCounts == {0, 1}

\* chrome.tabGroups.update(id, {title}) rejects when the group is gone
UpdateGroupTitle(gs, g, title) ==
  IF g \in DOMAIN gs THEN [gs EXCEPT ![g].title = title] ELSE gs

\* a faulty variant: _resetTitle() always returns early
ResetTitleEnabled_Never == FALSE

\* _resetTitle(): nothing without a current group or a base title; else the
\* pending timer is cleared and the title set back (errors are caught)
ResetTitleEnabled == tgh.currentGroupId # NoGroup /\ tgh.baseTitle # ""

\* the fields _resetTitle() leaves, started on the groups gs
AfterResetTitle(gs) ==
  IF ResetTitleEnabled
    THEN [timers |-> timers \ {tgh.resetTitleTimer},
          tgh |-> [tgh EXCEPT !.resetTitleTimer = NoTimer],
          groups |-> UpdateGroupTitle(gs, tgh.currentGroupId, tgh.baseTitle)]
    ELSE [timers |-> timers, tgh |-> tgh, groups |-> gs]

--------------------------------------------------------------------------
(* TabGroupHandler.syncTabs, one action per stretch between awaits that   *)
(* the claims tell apart.                                                 *)

IdleSt ==
  [pc |-> "idle", groupId |-> NoGroup, pullRequests |-> <<>>, previousPrCount |-> 0,
   tabs |-> <<>>, processedUrls |-> {}, i |-> 1, remainingTabs |-> <<>>,
   result |-> FALSE]

\* a faulty variant: no open tab is taken into the group
IsUngroupedPrTab_None(t, prUrls) == FALSE

\* the tabs syncTabs groups before it reads the group: ungrouped, with a URL
\* that is a desired item's
IsUngroupedPrTab(t, prUrls) ==
  t.groupId = TAB_GROUP_ID_NONE /\ t.url # NoUrl /\ t.url \in prUrls

\* a faulty variant: only the stale tabs that show a pull request are closed
IsTabToRemove_PrOnly(t, processedUrls) ==
  t.url # NoUrl /\ t.url # AboutBlank /\ t.url \notin processedUrls /\ IsPrUrl(t.url)

\* a tab of the group that is closed: it has a URL, is no placeholder and
\* its URL was not processed
IsTabToRemove(t, processedUrls) ==
  t.url # NoUrl /\ t.url # AboutBlank /\ t.url \notin processedUrls

\* a faulty variant: the placeholders are closed whatever is desired
ClosesPlaceholders_Always(pullRequests) == TRUE

\* "if (pullRequests.length > 0)": the placeholders go when items are desired
ClosesPlaceholders(pullRequests) == Len(pullRequests) > 0

\* a faulty variant: no placeholder is ever inserted
NeedsPlaceholder_Never(remainingTabs) == FALSE

\* "if (remainingTabs.length === 0)": the group needs a placeholder
NeedsPlaceholder(remainingTabs) == Len(remainingTabs) = 0

\* a faulty variant: the tab that was redirected is left open
CloseRedirected_Leaves(ts, id) == ts

\* the redirect guard: chrome.tabs.remove(newTab.id), which can only fail on a
\* tab that is gone already
CloseRedirected(ts, id) == RemoveTabs(ts, {id})

\* a faulty variant: the desired list is walked from its end
ItemAt_Reversed(pullRequests, i) == pullRequests[Len(pullRequests) + 1 - i]

\* "for (const pr of pullRequests)": the item of the i-th turn
ItemAt(pullRequests, i) == pullRequests[i]

\* the outcomes of _waitForTabUrl for a tab created at url: the URL itself, the
\* page a redirect led to, or "" when nothing loaded within the wait
FinalUrls(url) == {url, LoginUrl, NoUrl}

\* a faulty variant: every id is taken for a live group's
getTabGroup_Always(gs, groupId) == TRUE

\* getTabGroup(groupId): whether chrome.tabGroups.get gives a group (not null)
getTabGroup(gs, groupId) == groupId \in DOMAIN gs

\* getTabGroup(groupId), then this._currentGroupId = groupId
SyncTabsValidate(a) ==
  /\ st[a].pc = "validate"
  /\ IF getTabGroup(groups, st[a].groupId)
       THEN /\ tgh' = [tgh EXCEPT !.currentGroupId = st[a].groupId]
            /\ st' = [st EXCEPT ![a].pc = "absorb"]
       ELSE /\ tgh' = tgh
            /\ st' = [st EXCEPT ![a].pc = "done", ![a].result = FALSE]
  /\ UNCHANGED <<hostDropsEmpty, tabs, groups, nextTabId, timers, nextTimer>>
  /\ UNCHANGED <<env, calls, hist>>
  /\ UNCHANGED bmVars
  /\ UNCHANGED roundVars

\* the ungrouped tabs with a desired URL are grouped; then the group is read
SyncTabsAbsorb(a) ==
  /\ st[a].pc = "absorb"
  /\ LET prUrls == UrlsOf(st[a].pullRequests)
         ungroupedPrTabs == SelectSeq(tabs, LAMBDA t : IsUngroupedPrTab(t, prUrls))
         grouped == IF st[a].groupId \in DOMAIN groups
                      THEN GroupTabs(tabs, IdsOf(ungroupedPrTabs), st[a].groupId)
                      ELSE tabs
     IN /\ tabs' = grouped
        /\ st' = [st EXCEPT ![a].pc = "loop", ![a].i = 1, ![a].processedUrls = {},
                            ![a].tabs = TabsOfGroup(grouped, st[a].groupId)]
  /\ UNCHANGED <<hostDropsEmpty, groups, nextTabId, timers, nextTimer, tgh>>
  /\ UNCHANGED <<env, calls, hist>>
  /\ UNCHANGED bmVars
  /\ UNCHANGED roundVars

\* one turn of "for (const pr of pullRequests)"
SyncTabsLoop(a) ==
  /\ st[a].pc = "loop"
  /\ st[a].i <= Len(st[a].pullRequests)
  /\ LET pr == ItemAt(st[a].pullRequests, st[a].i)
         existingUrls == { st[a].tabs[k].url : k \in DOMAIN st[a].tabs }
     IN IF pr.url \in existingUrls
          THEN /\ st' = [st EXCEPT ![a].i = @ + 1, ![a].processedUrls = @ \cup {pr.url}]
               /\ UNCHANGED <<tabs, nextTabId>>
          ELSE \E finalUrl \in FinalUrls(pr.url) :
                 LET created == CreateTab(tabs, nextTabId, finalUrl)
                 IN /\ nextTabId' = nextTabId + 1
                    /\ IF ~IsPrUrl(finalUrl)
                         THEN \* the redirect guard: the tab is closed, the item skipped
                              /\ tabs' = CloseRedirected(created, nextTabId)
                              /\ st' = [st EXCEPT ![a].i = @ + 1]
                         ELSE /\ tabs' = IF st[a].groupId \in DOMAIN groups
                                           THEN GroupTab(created, nextTabId, st[a].groupId)
                                           ELSE tabs
                              /\ st' = [st EXCEPT ![a].i = @ + 1,
                                                  ![a].processedUrls = @ \cup {pr.url}]
  /\ UNCHANGED <<hostDropsEmpty, groups, timers, nextTimer, tgh>>
  \* noted for the claims on the calls made directly: the URLs whose new tab
  \* did not join the group, and the tabs the redirect guard was met on
  /\ hist' = IF calls > 0 /\ ItemAt(st[a].pullRequests, st[a].i).url \notin
                  { t.url : t \in Range(TabsOfGroup(tabs', st[a].groupId)) }
               THEN [hist EXCEPT !.discarded = @ \cup {ItemAt(st[a].pullRequests, st[a].i).url},
                                 !.guarded = IF nextTabId' # nextTabId
                                                /\ st'[a].processedUrls = st[a].processedUrls
                                               THEN @ \cup {nextTabId} ELSE @]
               ELSE hist
  /\ UNCHANGED <<env, calls>>
  /\ UNCHANGED bmVars
  /\ UNCHANGED roundVars

\* the tabs of the group that are no longer desired are closed, one by one;
\* chrome.tabs.remove rejects on a tab that is no longer there, which ends
\* the call with false (the catch)
SyncTabsRemove(a) ==
  /\ st[a].pc = "loop"
  /\ st[a].i > Len(st[a].pullRequests)
  /\ LET tabsToRemove == SelectSeq(st[a].tabs, LAMBDA t : IsTabToRemove(t, st[a].processedUrls))
         missing == { k \in DOMAIN tabsToRemove : tabsToRemove[k].id \notin TabIds(tabs) }
         firstMissing == IF missing = {} THEN Len(tabsToRemove) + 1
                         ELSE CHOOSE k \in missing : \A j \in missing : k <= j
         left == RemoveTabs(tabs, TabIds(SubSeq(tabsToRemove, 1, firstMissing - 1)))
     IN /\ tabs' = left
        /\ groups' = DropEmptyGroups(left, groups)
        /\ st' = IF missing = {} THEN [st EXCEPT ![a].pc = "placeholders"]
                 ELSE [st EXCEPT ![a].pc = "done", ![a].result = FALSE]
  /\ UNCHANGED <<hostDropsEmpty, nextTabId, timers, nextTimer, tgh>>
  /\ UNCHANGED <<env, calls, hist>>
  /\ UNCHANGED bmVars
  /\ UNCHANGED roundVars

\* the placeholders are closed when pull requests are desired
SyncTabsPlaceholders(a) ==
  /\ st[a].pc = "placeholders"
  /\ LET currentTabs == TabsOfGroup(tabs, st[a].groupId)
         placeholderTabs == SelectSeq(currentTabs, LAMBDA t : t.url = AboutBlank)
         left == IF ClosesPlaceholders(st[a].pullRequests)
                   THEN RemoveTabs(tabs, TabIds(placeholderTabs))
                   ELSE tabs
     IN /\ tabs' = left
        /\ groups' = DropEmptyGroups(left, groups)
        /\ st' = [st EXCEPT ![a].pc = "ensure"]
  /\ UNCHANGED <<hostDropsEmpty, nextTabId, timers, nextTimer, tgh>>
  /\ UNCHANGED <<env, calls, hist>>
  /\ UNCHANGED bmVars
  /\ UNCHANGED roundVars

\* a placeholder is created and grouped when the group has no tab left; the
\* call ends with false (the catch) when the group is gone
SyncTabsEnsure(a) ==
  /\ st[a].pc = "ensure"
  /\ LET remainingTabs == TabsOfGroup(tabs, st[a].groupId)
     IN IF NeedsPlaceholder(remainingTabs)
          THEN LET created == CreateTab(tabs, nextTabId, AboutBlank)
               IN /\ nextTabId' = nextTabId + 1
                  /\ IF st[a].groupId \in DOMAIN groups
                       THEN LET grouped == GroupTab(created, nextTabId, st[a].groupId)
                            IN /\ tabs' = grouped
                               /\ st' = [st EXCEPT ![a].pc = "position",
                                           ![a].remainingTabs = TabsOfGroup(grouped, st[a].groupId)]
                       ELSE /\ tabs' = created
                            /\ st' = [st EXCEPT ![a].pc = "done", ![a].result = FALSE]
          ELSE /\ st' = [st EXCEPT ![a].pc = "position", ![a].remainingTabs = remainingTabs]
               /\ UNCHANGED <<tabs, nextTabId>>
  /\ UNCHANGED <<hostDropsEmpty, groups, timers, nextTimer, tgh>>
  /\ UNCHANGED <<env, calls, hist>>
  /\ UNCHANGED bmVars
  /\ UNCHANGED roundVars

\* positionGroupAfterPinnedTabs(groupId)
PositionGroupAfterPinnedTabs(ts, g) ==
  LET targetPosition == Len(SelectSeq(ts, LAMBDA t : t.pinned))
      groupTabs == TabsOfGroup(ts, g)
      first == CHOOSE i \in DOMAIN ts : ts[i].id = groupTabs[1].id
  IN IF Len(groupTabs) = 0 THEN ts
     ELSE IF first - 1 = targetPosition THEN ts
     ELSE MoveTabs(ts, IdsOf(groupTabs), targetPosition)

SyncTabsPosition(a) ==
  /\ st[a].pc = "position"
  /\ tabs' = PositionGroupAfterPinnedTabs(tabs, st[a].groupId)
  /\ st' = [st EXCEPT ![a].pc = "visibility"]
  /\ UNCHANGED <<hostDropsEmpty, groups, nextTabId, timers, nextTimer, tgh>>
  /\ UNCHANGED <<env, calls, hist>>
  /\ UNCHANGED bmVars
  /\ UNCHANGED roundVars

\* a faulty variant: the group is collapsed whatever it holds
AutoCollapse_Always(remainingTabs) == TRUE

\* the group is collapsed when it holds no tab or one placeholder
AutoCollapse(remainingTabs) ==
  \/ Len(remainingTabs) = 0
  \/ Len(remainingTabs) = 1 /\ remainingTabs[1].url = AboutBlank

\* previousPrCount when the caller passes none, and what the subtraction
\* then gives: a value that no comparison holds of
Undefined == -1
NaN == -1000
NewPrCount(currentPrCount, previousPrCount) ==
  IF previousPrCount = Undefined THEN NaN ELSE currentPrCount - previousPrCount

\* a faulty variant: the count is shown only from two new pull requests on
ShowsNewCount_FromTwo(collapsed, newPrCount, baseTitle) ==
  collapsed /\ newPrCount > 1 /\ baseTitle # ""

\* the title shows the count of new pull requests on a collapsed group
ShowsNewCount(collapsed, newPrCount, baseTitle) ==
  collapsed /\ newPrCount > 0 /\ baseTitle # ""

\* chrome.tabGroups.update and chrome.tabGroups.get reject when the group is
\* gone, which ends the call with false (the catch)
SyncTabsGroupGone(a) ==
  /\ st[a].pc = "visibility"
  /\ st[a].groupId \notin DOMAIN groups
  /\ st' = [st EXCEPT ![a].pc = "done", ![a].result = FALSE]
  /\ UNCHANGED <<hostDropsEmpty, tabs, groups, nextTabId, timers, nextTimer, tgh>>
  /\ UNCHANGED <<env, calls, hist>>
  /\ UNCHANGED bmVars
  /\ UNCHANGED roundVars

\* the auto-collapse, then the title with the count and its 30 s timer
SyncTabsVisibility(a) ==
  /\ st[a].pc = "visibility"
  /\ st[a].groupId \in DOMAIN groups
  /\ LET collapsedNow == AutoCollapse(st[a].remainingTabs) \/ groups[st[a].groupId].collapsed
         newPrCount == NewPrCount(Len(st[a].pullRequests), st[a].previousPrCount)
         gs1 == [groups EXCEPT ![st[a].groupId].collapsed = collapsedNow]
     IN IF ShowsNewCount(collapsedNow, newPrCount, tgh.baseTitle)
          THEN /\ groups' = UpdateGroupTitle(gs1, st[a].groupId,
                                             TitleWithCount(tgh.baseTitle, newPrCount))
               /\ timers' = (timers \ {tgh.resetTitleTimer}) \cup {nextTimer}
               /\ tgh' = [tgh EXCEPT !.resetTitleTimer = nextTimer]
               /\ nextTimer' = nextTimer + 1
          ELSE IF ~collapsedNow /\ gs1[st[a].groupId].title # tgh.baseTitle
            THEN /\ groups' = AfterResetTitle(gs1).groups
                 /\ timers' = AfterResetTitle(gs1).timers
                 /\ tgh' = AfterResetTitle(gs1).tgh
                 /\ nextTimer' = nextTimer
            ELSE /\ groups' = gs1
                 /\ UNCHANGED <<timers, tgh, nextTimer>>
  /\ st' = [st EXCEPT ![a].pc = "done", ![a].result = TRUE]
  /\ UNCHANGED <<hostDropsEmpty, tabs, nextTabId>>
  /\ UNCHANGED <<env, calls, hist>>
  /\ UNCHANGED bmVars
  /\ UNCHANGED roundVars

--------------------------------------------------------------------------
(* ConfigHandler.formatPrName.  A text is a sequence of tokens: a          *)
(* placeholder, a field's value or a stretch of other text is one token.   *)

\* what a replacement string stands for: "$&" is the matched text, "$$" is "$"
Replacement(pat, rep) ==
  CASE rep = "$&" -> pat
    [] rep = "$$" -> "$"
    [] OTHER -> rep

\* String.prototype.replace(/pat/g, rep)
ReplaceAll(text, pat, rep) ==
  [k \in DOMAIN text |-> IF text[k] = pat THEN Replacement(pat, rep) ELSE text[k]]

formatPrName(format, pr) ==
  ReplaceAll(ReplaceAll(ReplaceAll(format, "%repository%", pr.repository_name),
                        "%name%", pr.name),
             "%number%", ToString(pr.number))

\* DEFAULT_SETTINGS.prNameFormat: "[%repository%] %name%"
DefaultPrNameFormat == <<"[", "%repository%", "] ", "%name%">>

--------------------------------------------------------------------------
(* LiveFolder._syncBookmarks. *)

IdleSb ==
  [pc |-> "idle", pullRequests |-> <<>>, prNameFormat |-> <<>>,
   existingBookmarks |-> <<>>, processedUrls |-> {}, i |-> 1]

\* browser.bookmarks.create({parentId, title, url}): appended to the folder
CreateBookmark(bs, id, title, url) == Append(bs, [id |-> id, url |-> url, title |-> title])

\* browser.bookmarks.update(id, {title})
UpdateBookmark(bs, id, title) ==
  [k \in DOMAIN bs |-> IF bs[k].id = id THEN [bs[k] EXCEPT !.title = title] ELSE bs[k]]

\* a faulty variant: only the stale bookmarks of pull requests are removed
IsBookmarkToRemove_PrOnly(b, processedUrls) ==
  b.url # NoUrl /\ b.url \notin processedUrls /\ IsPrUrl(b.url)

\* a bookmark that is removed: it has a URL and the URL was not processed
IsBookmarkToRemove(b, processedUrls) == b.url # NoUrl /\ b.url \notin processedUrls

\* new Map(existingBookmarks.map(b => [b.url, b])).get(url): the last one wins
ExistingByUrl(existing, url) ==
  existing[CHOOSE k \in DOMAIN existing :
             /\ existing[k].url = url
             /\ \A j \in DOMAIN existing : existing[j].url = url => j <= k]

\* browser.bookmarks.getChildren(folderId)
SyncBookmarksRead ==
  /\ sb.pc = "read"
  /\ sb' = [sb EXCEPT !.pc = "loop", !.existingBookmarks = bookmarks,
                      !.processedUrls = {}, !.i = 1]
  /\ UNCHANGED <<bookmarks, nextBookmarkId, folder>>
  /\ UNCHANGED <<env, calls, hist>>
  /\ UNCHANGED tabVars
  /\ UNCHANGED roundVars

\* one turn of "for (const pr of pullRequests)"
SyncBookmarksLoop ==
  /\ sb.pc = "loop"
  /\ sb.i <= Len(sb.pullRequests)
  /\ LET pr == ItemAt(sb.pullRequests, sb.i)
         title == formatPrName(sb.prNameFormat, pr)
         existingUrls == { sb.existingBookmarks[k].url : k \in DOMAIN sb.existingBookmarks }
     IN /\ IF pr.url \in existingUrls
             THEN LET existing == ExistingByUrl(sb.existingBookmarks, pr.url)
                  IN /\ bookmarks' = IF existing.title # title
                                       THEN UpdateBookmark(bookmarks, existing.id, title)
                                       ELSE bookmarks
                     /\ nextBookmarkId' = nextBookmarkId
             ELSE /\ bookmarks' = CreateBookmark(bookmarks, nextBookmarkId, title, pr.url)
                  /\ nextBookmarkId' = nextBookmarkId + 1
        /\ sb' = [sb EXCEPT !.i = @ + 1, !.processedUrls = @ \cup {pr.url}]
  /\ UNCHANGED folder
  /\ UNCHANGED <<env, calls, hist>>
  /\ UNCHANGED tabVars
  /\ UNCHANGED roundVars

\* the bookmarks that are no longer desired are removed
SyncBookmarksRemove ==
  /\ sb.pc = "loop"
  /\ sb.i > Len(sb.pullRequests)
  /\ LET bookmarksToRemove ==
           SelectSeq(sb.existingBookmarks, LAMBDA b : IsBookmarkToRemove(b, sb.processedUrls))
     IN bookmarks' = SelectSeq(bookmarks, LAMBDA b : b.id \notin TabIds(bookmarksToRemove))
  /\ sb' = [sb EXCEPT !.pc = "done"]
  /\ UNCHANGED <<nextBookmarkId, folder>>
  /\ UNCHANGED <<env, calls, hist>>
  /\ UNCHANGED tabVars
  /\ UNCHANGED roundVars

--------------------------------------------------------------------------
(* The timer and the user. *)

\* the 30 s timer fires: _resetTitle()
ResetTitleTimerFires ==
  /\ \E h \in timers :
       LET r == AfterResetTitle(groups)
       IN /\ timers' = r.timers \ {h}
          /\ tgh' = r.tgh
          /\ groups' = r.groups
  /\ UNCHANGED <<hostDropsEmpty, tabs, nextTabId, nextTimer, st>>
  /\ UNCHANGED <<env, calls, hist>>
  /\ UNCHANGED bmVars
  /\ UNCHANGED roundVars

\* a faulty variant: the listener leaves the title and the timer
OnGroupUpdated_Ignores(gs, g) == [timers |-> timers, tgh |-> tgh, groups |-> gs]

\* chrome.tabGroups.onUpdated listener (_setupTabGroupListener), run on the
\* group the user has just expanded or collapsed
OnGroupUpdated(gs, g) ==
  IF g = tgh.currentGroupId /\ ~gs[g].collapsed /\ tgh.baseTitle # ""
     /\ gs[g].title # tgh.baseTitle
    THEN AfterResetTitle(gs)
    ELSE [timers |-> timers, tgh |-> tgh, groups |-> gs]

\* the user expands or collapses the group, between two calls
UserTogglesGroup ==
  /\ st[Direct].pc \in {"idle", "done"}
  /\ PrGroup \in DOMAIN groups
  /\ LET r == OnGroupUpdated([groups EXCEPT ![PrGroup].collapsed = ~@], PrGroup)
     IN /\ groups' = r.groups
        /\ timers' = r.timers
        /\ tgh' = r.tgh
  /\ UNCHANGED <<hostDropsEmpty, tabs, nextTabId, nextTimer, st>>
  \* noted for the claims: the group was expanded while it bore a count
  /\ hist' = IF calls > 0 /\ groups[PrGroup].collapsed
                 /\ groups[PrGroup].title # tgh.baseTitle
               THEN [hist EXCEPT !.expanded = TRUE] ELSE hist
  /\ UNCHANGED <<env, calls>>
  /\ UNCHANGED bmVars
  /\ UNCHANGED roundVars

--------------------------------------------------------------------------
(* The reconcile calls: syncTabs called with every desired list on every   *)
(* arrangement of tabs, then called again.                                 *)

MaxCalls == 2

\* DEFAULT_SETTINGS
DEFAULT_SETTINGS ==
  [id |-> "__unset__", name |-> "Pull Requests", refreshInterval |-> 1,
   prNameFormat |-> DefaultPrNameFormat, lastPrUpdate |-> 0, tabGroupId |-> -1,
   tabGroupColor |-> "blue", prFilter |-> "both", organizationFilter |-> ""]

\* storage.local holds nothing under the key SETTINGS
Unstored == [unstored |-> TRUE]

\* getSettings(): the stored record, the defaults when nothing is stored
getSettings(stored) == IF stored = Unstored THEN DEFAULT_SETTINGS ELSE stored

\* a faulty variant: the fields that are not named are dropped
Merged_Replaces(current, partial) == partial

\* { ...currentSettings, ...settings }
Merged(current, partial) ==
  [k \in DOMAIN current \cup DOMAIN partial |->
     IF k \in DOMAIN partial THEN partial[k] ELSE current[k]]

\* setSettings(partial): the record it writes and returns
setSettings(stored, partial) == Merged(getSettings(stored), partial)

\* a faulty variant: the stored record is taken to be complete
hasAllKeys_Always(s) == TRUE

\* Object.keys(DEFAULT_SETTINGS).every(key => settings[key] !== undefined)
hasAllKeys(s) == \A k \in DOMAIN DEFAULT_SETTINGS : k \in DOMAIN s

\* ensureSettings(): the record in the store when it has returned
ensureSettings(stored) ==
  IF hasAllKeys(getSettings(stored)) THEN stored
  ELSE setSettings(stored, DEFAULT_SETTINGS)

\* the bookmark folder as the extension made it (none on Chrome); renamedTo
\* and renamedAt note the title the user gave it and how many rounds had
\* started then
Folder(title) == [title |-> title, renamedTo |-> "", renamedAt |-> 0]

IdleSf ==
  [pc |-> "idle", source |-> "none", settings |-> DEFAULT_SETTINGS, pullRequests |-> <<>>,
   groupId |-> NoGroup, stale |-> FALSE, nEnsure |-> 0, nSync |-> 0,
   persisted |-> NoGroup, result |-> FALSE,
   current |-> DEFAULT_SETTINGS, payload |-> "", fetchFailed |-> FALSE]

\* no round is modelled: the calls are made on the reconcilers directly
RoundsIdle ==
  /\ settings = [DEFAULT_SETTINGS EXCEPT !.name = "PRs", !.tabGroupId = PrGroup]
  /\ authenticated = TRUE
  /\ authCheck = FALSE
  /\ cookie = TRUE
  /\ alarmSet = 0
  /\ alarm = NoAlarm
  /\ initialized = FALSE
  /\ sf = [a \in Acts |-> IdleSf]
  /\ nextGroupId = UserGroup + 1

Tab(id, url, g) == [id |-> id, url |-> url, groupId |-> g, pinned |-> FALSE]

\* the kinds of tab an arrangement is made of, in strip order
TabKinds ==
  << [url |-> OtherUrl, groupId |-> TAB_GROUP_ID_NONE],
     [url |-> PrUrl("1"), groupId |-> PrGroup],
     [url |-> PrUrl("2"), groupId |-> PrGroup],
     [url |-> AboutBlank, groupId |-> PrGroup],
     [url |-> OtherUrl, groupId |-> PrGroup],
     [url |-> NoUrl, groupId |-> PrGroup],
     [url |-> PrUrl("1"), groupId |-> UserGroup],
     [url |-> PrUrl("1"), groupId |-> TAB_GROUP_ID_NONE],
     [url |-> PrUrl("2"), groupId |-> TAB_GROUP_ID_NONE] >>

\* the arrangements: up to MaxInitTabs tabs, each group's tabs side by side
Arrangements ==
  LET KindSeqs == UNION { [1..n -> DOMAIN TabKinds] : n \in 0..MaxInitTabs }
      Sorted == { ks \in KindSeqs : \A i \in 1..(Len(ks) - 1) : ks[i] <= ks[i + 1] }
  IN { [i \in DOMAIN ks |-> Tab(i, TabKinds[ks[i]].url, TabKinds[ks[i]].groupId)] :
       ks \in Sorted }

Group(title, collapsed) == [title |-> title, color |-> "blue", collapsed |-> collapsed]

EntriesOf(ts, g) == { [id |-> t.id, url |-> t.url] : t \in Range(TabsOfGroup(ts, g)) }

IdleHist ==
  [strays |-> {}, ungroupedStrays |-> {}, discarded |-> {}, blanksBefore |-> 0,
   collapsedBefore |-> FALSE, prevDone |-> FALSE, prevEntries |-> {},
   prevDesired |-> <<>>, prevResult |-> FALSE, prevDiscarded |-> {}, guarded |-> {},
   expanded |-> FALSE]


InitTabs ==
  /\ env = "chrome"
  /\ hostDropsEmpty \in BOOLEAN
  /\ tabs \in Arrangements
  /\ \E live \in SUBSET {PrGroup}, collapsed \in BOOLEAN :
       /\ \A i \in DOMAIN tabs : tabs[i].groupId = PrGroup => PrGroup \in live
       /\ hostDropsEmpty /\ PrGroup \in live => \E i \in DOMAIN tabs : tabs[i].groupId = PrGroup
       /\ groups = [g \in (live \cup { tabs[i].groupId : i \in DOMAIN tabs }) \ {TAB_GROUP_ID_NONE}
                      |-> IF g = PrGroup THEN Group("PRs", collapsed) ELSE Group("mine", FALSE)]
  /\ nextTabId = Len(tabs) + 1
  /\ timers = {}
  /\ nextTimer = 1
  \* ensureTabGroup has run: syncFolder calls it before every syncTabs
  /\ tgh = [currentGroupId |-> PrGroup, baseTitle |-> "PRs", resetTitleTimer |-> NoTimer,
            evicting |-> <<>>]
  /\ st = [a \in Acts |-> IdleSt]
  /\ calls = 0
  /\ hist = IdleHist
  /\ bookmarks = <<>>
  /\ nextBookmarkId = 1
  /\ sb = IdleSb
  /\ folder = Folder("")
  /\ RoundsIdle

\* a call of syncTabs: any desired list the first time, the same list or the
\* empty one afterwards
CallSyncTabs ==
  /\ env = "chrome"
  /\ st[Direct].pc \in {"idle", "done"}
  /\ calls < MaxCalls
  /\ \E D \in DesiredLists, prev \in PrevCounts :
       /\ calls > 0 => D \in {st[Direct].pullRequests, <<>>}
       /\ st' = [st EXCEPT ![Direct] =
                    [IdleSt EXCEPT !.pc = "validate", !.groupId = PrGroup,
                                   !.pullRequests = D, !.previousPrCount = prev]]
       /\ hist' = [strays |-> { t.id : t \in { t \in Range(tabs) :
                                  t.url \in UrlsOf(D) /\ t.groupId # PrGroup } },
                   ungroupedStrays |-> { t.id : t \in { t \in Range(tabs) :
                                  t.url \in UrlsOf(D) /\ t.groupId = TAB_GROUP_ID_NONE } },
                   discarded |-> {},
                   blanksBefore |-> Len(SelectSeq(TabsOfGroup(tabs, PrGroup),
                                      LAMBDA t : t.url \in {AboutBlank, NoUrl})),
                   collapsedBefore |-> PrGroup \in DOMAIN groups /\ groups[PrGroup].collapsed,
                   prevDone |-> st[Direct].pc = "done",
                   prevEntries |-> EntriesOf(tabs, PrGroup),
                   prevDesired |-> st[Direct].pullRequests,
                   prevResult |-> st[Direct].result,
                   prevDiscarded |-> hist.discarded,
                   guarded |-> {},
                   expanded |-> FALSE]
  /\ calls' = calls + 1
  /\ UNCHANGED <<env, hostDropsEmpty, tabs, groups, nextTabId, timers, nextTimer, tgh>>
  /\ UNCHANGED bmVars
  /\ UNCHANGED roundVars

--------------------------------------------------------------------------
(* The same for _syncBookmarks, on every content of the folder. *)

\* the kinds of bookmark a folder is made of
BookmarkKinds ==
  << [url |-> PrUrl("1"), title |-> formatPrName(DefaultPrNameFormat,
                                      CHOOSE pr \in AllPrs : pr.url = PrUrl("1"))],
     [url |-> PrUrl("1"), title |-> <<"an old title">>],
     [url |-> PrUrl("2"), title |-> <<"an old title">>],
     [url |-> OtherUrl, title |-> <<"news">>],
     [url |-> NoUrl, title |-> <<"a subfolder">>] >>

Folders ==
  LET KindSeqs == UNION { [1..n -> DOMAIN BookmarkKinds] : n \in 0..MaxInitBookmarks }
      Sorted == { ks \in KindSeqs : \A i \in 1..(Len(ks) - 1) : ks[i] <= ks[i + 1] }
  IN { [i \in DOMAIN ks |->
          [id |-> i, url |-> BookmarkKinds[ks[i]].url, title |-> BookmarkKinds[ks[i]].title]] :
       ks \in Sorted }

BookmarkEntries(bs) == { [id |-> b.id, url |-> b.url] : b \in Range(bs) }

InitBookmarks ==
  /\ env = "firefox"
  /\ hostDropsEmpty = FALSE
  /\ tabs = <<>>
  /\ groups = <<>>
  /\ nextTabId = 1
  /\ timers = {}
  /\ nextTimer = 1
  /\ tgh = [currentGroupId |-> NoGroup, baseTitle |-> "", resetTitleTimer |-> NoTimer,
            evicting |-> <<>>]
  /\ st = [a \in Acts |-> IdleSt]
  /\ calls = 0
  /\ hist = IdleHist
  /\ bookmarks \in Folders
  /\ nextBookmarkId = Len(bookmarks) + 1
  /\ sb = IdleSb
  /\ folder = Folder("PRs")
  /\ RoundsIdle

CallSyncBookmarks ==
  /\ env = "firefox"
  /\ sb.pc \in {"idle", "done"}
  /\ calls < MaxCalls
  /\ \E D \in DesiredLists :
       /\ calls > 0 => D \in {sb.pullRequests, <<>>}
       /\ sb' = [IdleSb EXCEPT !.pc = "read", !.pullRequests = D,
                               !.prNameFormat = DefaultPrNameFormat]
       /\ hist' = [IdleHist EXCEPT !.prevDone = sb.pc = "done",
                                   !.prevEntries = BookmarkEntries(bookmarks),
                                   !.prevDesired = sb.pullRequests,
                                   !.prevResult = sb.pc = "done"]
  /\ calls' = calls + 1
  /\ UNCHANGED <<env, bookmarks, nextBookmarkId, folder>>
  /\ UNCHANGED tabVars
  /\ UNCHANGED roundVars

Init == InitTabs \/ InitBookmarks

Next ==
  \/ CallSyncTabs
  \/ \E a \in Acts : SyncTabsValidate(a)
  \/ \E a \in Acts : SyncTabsAbsorb(a)
  \/ \E a \in Acts : SyncTabsLoop(a)
  \/ \E a \in Acts : SyncTabsRemove(a)
  \/ \E a \in Acts : SyncTabsPlaceholders(a)
  \/ \E a \in Acts : SyncTabsEnsure(a)
  \/ \E a \in Acts : SyncTabsPosition(a)
  \/ \E a \in Acts : SyncTabsVisibility(a)
  \/ ResetTitleTimerFires
  \/ UserTogglesGroup
  \/ CallSyncBookmarks
  \/ SyncBookmarksRead
  \/ SyncBookmarksLoop
  \/ SyncBookmarksRemove

Spec == Init /\ [][Next]_vars

--------------------------------------------------------------------------
(* The rounds: LiveFolder.init and LiveFolder.syncFolder, with the        *)
(* handlers that call syncFolder (the alarm, SET_CONFIG, onStartup).      *)
(* sf[a].pc is the await the activation a stands at.                      *)

\* the tabs open when the extension starts
MaxRoundTabs == 0

\* what getPullRequests can return
RoundDesired == { D \in DesiredLists : UrlsOf(D) \subseteq {PrUrl("1")} }

\* the names the settings form can send
ConfigNames == {"PRs"}

SfUnchanged == UNCHANGED <<env, calls, hist>> /\ UNCHANGED bmVars

\* the activation is inside syncFolder
InSyncFolder(a) ==
  sf[a].pc \in {"fetch", "ensure_find", "ensure_create", "persist", "persist_write",
               "reconcile", "folder", "bookmarks", "stamp_write"}
  /\ sf[a].source # "init_ensure"

\* GithubHandler's constructor: isAuthenticatedFromBrowser().then(updateAuthState)
AuthCheckResolves ==
  /\ authCheck
  /\ authCheck' = FALSE
  /\ authenticated' = cookie
  /\ UNCHANGED <<settings, cookie, alarmSet, alarm, initialized, sf, nextGroupId>>
  /\ UNCHANGED tabVars
  /\ SfUnchanged

\* "if (this._githubHandler.authenticated)" of init
InitEnsures(isAuthenticated) == isAuthenticated

\* init(): ensureSettings(), the authenticated test, getSettings()
InitSettings(a) ==
  /\ sf[a].pc = "init_settings"
  /\ IF InitEnsures(authenticated)
       THEN /\ sf' = [sf EXCEPT ![a].pc = "ensure_find", ![a].source = "init_ensure",
                                ![a].settings = settings]
            /\ initialized' = initialized
       ELSE /\ sf' = [sf EXCEPT ![a].pc = "ended"]
            /\ initialized' = TRUE
  /\ UNCHANGED <<settings, authenticated, authCheck, cookie, alarmSet, alarm, nextGroupId>>
  /\ UNCHANGED tabVars
  /\ SfUnchanged

\* getSettings(), then getPullRequests(): the cookie is read again, and
\* nothing is returned without it, nor when the fetch of the page fails
SfFetch(a) ==
  /\ sf[a].pc = "fetch"
  /\ authenticated' = cookie
  /\ \E D \in RoundDesired, htmlError \in BOOLEAN :
       /\ ~cookie => D = <<>> /\ ~htmlError
       /\ htmlError => D = <<>>
       \* "if (this._configHandler.supportsTabGroups())"
       /\ sf' = [sf EXCEPT ![a].pc = IF env = "chrome" THEN "ensure_find" ELSE "folder",
                           ![a].settings = settings,
                           ![a].pullRequests = D, ![a].fetchFailed = htmlError]
  /\ UNCHANGED <<settings, authCheck, cookie, alarmSet, alarm, initialized, nextGroupId>>
  /\ UNCHANGED tabVars
  /\ SfUnchanged

\* updateRefreshInterval(interval): alarms.clear, then alarms.create with the
\* period
updateRefreshInterval(al, interval) == interval

\* syncFolder after the fetch: alarms.get, and updateRefreshInterval when the
\* period of the alarm is not the refreshInterval of the settings read
AlarmCheck(al, refreshInterval) ==
  IF refreshInterval # al THEN updateRefreshInterval(al, refreshInterval) ELSE al

\* ensureTabGroup, to its return or to the creation of a group: the base
\* title is stored, a group with the title is taken, else the group of the
\* stored id, with its title set
EnsureFind(a) ==
  /\ sf[a].pc = "ensure_find"
  /\ LET title == sf[a].settings.name
         groupId == sf[a].settings.tabGroupId
         byTitle == { g \in DOMAIN groups : groups[g].title = title }
     IN IF byTitle # {}
          THEN \E g \in byTitle :
                 /\ tgh' = [tgh EXCEPT !.baseTitle = title, !.currentGroupId = g]
                 /\ sf' = [sf EXCEPT ![a].pc = "persist", ![a].groupId = g,
                                     ![a].nEnsure = @ + 1]
                 /\ groups' = groups
          ELSE IF groupId # TAB_GROUP_ID_NONE /\ groupId \in DOMAIN groups
            THEN /\ tgh' = [tgh EXCEPT !.baseTitle = title, !.currentGroupId = groupId]
                 /\ sf' = [sf EXCEPT ![a].pc = "persist", ![a].groupId = groupId,
                                     ![a].nEnsure = @ + 1]
                 /\ groups' = UpdateGroupTitle(groups, groupId, title)
            ELSE /\ tgh' = [tgh EXCEPT !.baseTitle = title]
                 /\ sf' = [sf EXCEPT ![a].pc = "ensure_create", ![a].nEnsure = @ + 1]
                 /\ groups' = groups
  \* in syncFolder the alarm is checked before ensureTabGroup is called
  /\ alarm' = IF sf[a].source = "init_ensure" THEN alarm
              ELSE AlarmCheck(alarm, sf[a].settings.refreshInterval)
  /\ UNCHANGED <<hostDropsEmpty, tabs, nextTabId, timers, nextTimer, st>>
  /\ UNCHANGED <<settings, authenticated, authCheck, cookie, alarmSet, initialized,
                 nextGroupId>>
  /\ SfUnchanged

\* ensureTabGroup, the creation: a placeholder tab, a new group of it, with
\* the title, collapsed
EnsureCreate(a) ==
  /\ sf[a].pc = "ensure_create"
  /\ LET created == CreateTab(tabs, nextTabId, AboutBlank)
     IN /\ tabs' = [i \in DOMAIN created |->
                      IF created[i].id = nextTabId
                        THEN [created[i] EXCEPT !.groupId = nextGroupId]
                        ELSE created[i]]
        /\ groups' = [g \in DOMAIN groups \cup {nextGroupId} |->
                        IF g = nextGroupId THEN Group(sf[a].settings.name, TRUE)
                        ELSE groups[g]]
  /\ nextTabId' = nextTabId + 1
  /\ nextGroupId' = nextGroupId + 1
  /\ tgh' = [tgh EXCEPT !.currentGroupId = nextGroupId]
  /\ sf' = [sf EXCEPT ![a].pc = "persist", ![a].groupId = nextGroupId]
  /\ UNCHANGED <<hostDropsEmpty, timers, nextTimer, st>>
  /\ UNCHANGED <<settings, authenticated, authCheck, cookie, alarmSet, alarm, initialized>>
  /\ SfUnchanged

\* a faulty variant: the id is never written to the settings
NeedsPersist_Never(groupId, storedId) == FALSE

\* "if (groupId !== settings.tabGroupId)" of syncFolder
NeedsPersist(groupId, storedId) == groupId # storedId

\* syncFolder calls syncTabs, with no previousPrCount
StartSyncTabs(a) ==
  [IdleSt EXCEPT !.pc = "validate", !.groupId = sf[a].groupId,
                 !.pullRequests = sf[a].pullRequests,
                 !.previousPrCount = Undefined]

\* ensureTabGroup has returned: init writes the id to the settings, syncFolder
\* writes it when it is not the id it read; setSettings reads the stored
\* settings first
Persist(a) ==
  /\ sf[a].pc = "persist"
  /\ IF sf[a].source = "init_ensure"
          \/ NeedsPersist(sf[a].groupId, sf[a].settings.tabGroupId)
       THEN /\ sf' = [sf EXCEPT ![a].pc = "persist_write", ![a].current = settings]
            /\ st' = st
       \* noted for the claims: the id in the settings as syncTabs is called
       ELSE /\ sf' = [sf EXCEPT ![a].pc = "reconcile", ![a].nSync = @ + 1,
                                ![a].persisted = settings.tabGroupId]
            /\ st' = [st EXCEPT ![a] = StartSyncTabs(a)]
  /\ UNCHANGED <<hostDropsEmpty, tabs, groups, nextTabId, timers, nextTimer, tgh>>
  /\ UNCHANGED <<settings, authenticated, authCheck, cookie, alarmSet, alarm, initialized,
                 nextGroupId>>
  /\ SfUnchanged

\* setSettings({tabGroupId}) writes what it read with the id put in; init goes
\* on to the alarm, syncFolder calls syncTabs
PersistWrite(a) ==
  /\ sf[a].pc = "persist_write"
  /\ settings' = Merged(sf[a].current, [tabGroupId |-> sf[a].groupId])
  /\ IF sf[a].source = "init_ensure"
       THEN /\ sf' = [sf EXCEPT ![a].pc = "alarms", ![a].current = DEFAULT_SETTINGS]
            /\ st' = st
       ELSE /\ sf' = [sf EXCEPT ![a].pc = "reconcile", ![a].nSync = @ + 1,
                                ![a].persisted = settings'.tabGroupId,
                                ![a].current = DEFAULT_SETTINGS]
            /\ st' = [st EXCEPT ![a] = StartSyncTabs(a)]
  /\ UNCHANGED <<hostDropsEmpty, tabs, groups, nextTabId, timers, nextTimer, tgh>>
  /\ UNCHANGED <<authenticated, authCheck, cookie, alarmSet, alarm, initialized, nextGroupId>>
  /\ SfUnchanged

\* where the handler goes on when syncFolder has returned
AfterRound(source) ==
  IF source = "init" THEN "init_end"
  ELSE IF source = "startup" THEN "startup_auth"
  ELSE "ended"

\* syncFolder is called in the activation a: it returns at once when not
\* authenticated, and stands at getSettings() otherwise
StartRound(a, source) ==
  [sf[a] EXCEPT !.pc = IF authenticated THEN "fetch" ELSE AfterRound(source),
                !.source = source,
                !.stale = settings.tabGroupId \notin DOMAIN groups,
                !.nEnsure = 0, !.nSync = 0, !.persisted = NoGroup]

\* _setupAlarms(), then init calls syncFolder
SetupAlarms(a) ==
  /\ sf[a].pc = "alarms"
  /\ alarmSet' = alarmSet + 1
  \* alarms.clear, then alarms.create with the period the settings give
  /\ alarm' = settings.refreshInterval
  /\ sf' = [sf EXCEPT ![a] = StartRound(a, "init")]
  /\ UNCHANGED <<settings, authenticated, authCheck, cookie, initialized, nextGroupId>>
  /\ UNCHANGED tabVars
  /\ SfUnchanged

\* Date.now() in the activation a: the time of the one call the activation
\* makes, which is no other activation's
Now(a) == a

\* syncTabs has returned (its result is not looked at): setSettings reads the
\* stored settings
SfStamp(a) ==
  /\ sf[a].pc = "reconcile"
  /\ st[a].pc = "done"
  /\ st' = [st EXCEPT ![a] = IdleSt]
  /\ sf' = [sf EXCEPT ![a].result = st[a].result, ![a].pc = "stamp_write",
                      ![a].current = settings]
  /\ UNCHANGED <<hostDropsEmpty, tabs, groups, nextTabId, timers, nextTimer, tgh>>
  /\ UNCHANGED <<settings, authenticated, authCheck, cookie, alarmSet, alarm, initialized,
                 nextGroupId>>
  /\ SfUnchanged

\* setSettings({lastPrUpdate: Date.now()}) writes what it read with the time
\* put in, and syncFolder returns
StampWrite(a) ==
  /\ sf[a].pc = "stamp_write"
  /\ settings' = Merged(sf[a].current, [lastPrUpdate |-> Now(a)])
  /\ sf' = [sf EXCEPT ![a].pc = AfterRound(sf[a].source),
                      ![a].current = DEFAULT_SETTINGS, ![a].pullRequests = <<>>,
                      ![a].fetchFailed = FALSE]
  /\ UNCHANGED <<authenticated, authCheck, cookie, alarmSet, alarm, initialized, nextGroupId>>
  /\ UNCHANGED tabVars
  /\ SfUnchanged

\* init(): this._initialized = true
InitEnd(a) ==
  /\ sf[a].pc = "init_end"
  /\ initialized' = TRUE
  /\ sf' = [sf EXCEPT ![a].pc = "ended"]
  /\ UNCHANGED <<settings, authenticated, authCheck, cookie, alarmSet, alarm, nextGroupId>>
  /\ UNCHANGED tabVars
  /\ SfUnchanged

\* onStartup, after syncFolder: the cookie is read
StartupAuth(a) ==
  /\ sf[a].pc = "startup_auth"
  /\ authenticated' = cookie
  /\ sf' = [sf EXCEPT ![a].pc = "ended"]
  /\ UNCHANGED <<settings, authCheck, cookie, alarmSet, alarm, initialized, nextGroupId>>
  /\ UNCHANGED tabVars
  /\ SfUnchanged

\* the activation the next handler runs in
FreeAct(a) == sf[a].pc = "idle" /\ \A b \in Acts : b < a => sf[b].pc # "idle"

\* the alarm goes off: syncFolder
OnAlarm(a) ==
  /\ alarmSet > 0
  /\ FreeAct(a)
  /\ sf' = [sf EXCEPT ![a] = StartRound(a, "alarm")]
  /\ UNCHANGED <<settings, authenticated, authCheck, cookie, alarmSet, alarm, initialized,
                 nextGroupId>>
  /\ UNCHANGED tabVars
  /\ SfUnchanged

\* the message SET_CONFIG: setSettings(message.data) reads the stored settings
OnSetConfig(a) ==
  /\ FreeAct(a)
  /\ \E name \in ConfigNames :
       sf' = [sf EXCEPT ![a] = [IdleSf EXCEPT !.pc = "config_write", !.source = "config",
                                             !.payload = name, !.current = settings]]
  /\ UNCHANGED <<settings, authenticated, authCheck, cookie, alarmSet, alarm, initialized,
                 nextGroupId>>
  /\ UNCHANGED tabVars
  /\ SfUnchanged

\* setSettings(message.data) writes what it read with the payload put in; then
\* the handler calls syncFolder
ConfigWrite(a) ==
  /\ sf[a].pc = "config_write"
  /\ settings' = Merged(sf[a].current, [name |-> sf[a].payload])
  /\ sf' = [sf EXCEPT ![a] = [StartRound(a, "config") EXCEPT
                                !.stale = settings'.tabGroupId \notin DOMAIN groups,
                                !.current = DEFAULT_SETTINGS]]
  /\ UNCHANGED <<authenticated, authCheck, cookie, alarmSet, alarm, initialized, nextGroupId>>
  /\ UNCHANGED tabVars
  /\ SfUnchanged

\* runtime.onStartup: syncFolder, then the cookie is read
OnStartup(a) ==
  /\ FreeAct(a)
  /\ sf' = [sf EXCEPT ![a] = StartRound(a, "startup")]
  /\ UNCHANGED <<settings, authenticated, authCheck, cookie, alarmSet, alarm, initialized,
                 nextGroupId>>
  /\ UNCHANGED tabVars
  /\ SfUnchanged

\* GithubHandler.isAuthenticatedFromCookie on the cookie an onChanged event
\* bears: the cookie logged_in of .github.com with the value "yes"
isAuthenticatedFromCookie(value) == value = "yes"

\* cookies.onChanged listener: the user logs out (logged_in=no takes the place
\* of logged_in=yes) or clears the cookie; the event of a removal bears the
\* cookie that was removed, and the listener does not look at the event's
\* "removed"
OnCookieChanged ==
  /\ \E change \in {"logout", "cleared"} :
       /\ cookie
       /\ cookie' = FALSE
       /\ authenticated' =
            isAuthenticatedFromCookie(IF change = "logout" THEN "no" ELSE "yes")
  /\ UNCHANGED <<settings, authCheck, alarmSet, alarm, initialized, sf, nextGroupId>>
  /\ UNCHANGED tabVars
  /\ SfUnchanged

\* the arrangements the extension starts on
RoundArrangements == { ts \in Arrangements : Len(ts) <= MaxRoundTabs }

\* the extension has been loaded: the constructors have run, init() has been
\* called and stands at its first await
InitRound ==
  /\ env = "chrome"
  /\ hostDropsEmpty \in BOOLEAN
  /\ tabs \in RoundArrangements
  /\ settings \in { DEFAULT_SETTINGS,
                    [DEFAULT_SETTINGS EXCEPT !.name = "PRs", !.tabGroupId = PrGroup] }
  /\ \E live \in SUBSET {PrGroup}, collapsed \in BOOLEAN :
       /\ \A i \in DOMAIN tabs : tabs[i].groupId = PrGroup => PrGroup \in live
       /\ hostDropsEmpty /\ PrGroup \in live => \E i \in DOMAIN tabs : tabs[i].groupId = PrGroup
       \* a group of the extension's is there only when it has stored its id
       /\ settings = DEFAULT_SETTINGS => live = {}
       /\ PrGroup \notin live => ~collapsed
       /\ groups = [g \in (live \cup { tabs[i].groupId : i \in DOMAIN tabs }) \ {TAB_GROUP_ID_NONE}
                      |-> IF g = PrGroup THEN Group("PRs", collapsed) ELSE Group("mine", FALSE)]
  /\ nextTabId = Len(tabs) + 1
  /\ timers = {}
  /\ nextTimer = 1
  /\ tgh = [currentGroupId |-> NoGroup, baseTitle |-> "", resetTitleTimer |-> NoTimer,
            evicting |-> <<>>]
  /\ st = [a \in Acts |-> IdleSt]
  /\ calls = 0
  /\ hist = IdleHist
  /\ bookmarks = <<>>
  /\ nextBookmarkId = 1
  /\ sb = IdleSb
  /\ folder = Folder("")
  /\ authenticated = FALSE
  /\ authCheck = TRUE
  /\ cookie \in BOOLEAN
  /\ alarmSet = 0
  /\ alarm = NoAlarm
  /\ initialized = FALSE
  /\ sf = [a \in Acts |-> IF a = 1 THEN [IdleSf EXCEPT !.pc = "init_settings", !.source = "init"]
                          ELSE IdleSf]
  /\ nextGroupId = UserGroup + 1

NextRound ==
  \/ AuthCheckResolves
  \/ \E a \in Acts : InitSettings(a)
  \/ \E a \in Acts : SfFetch(a)
  \/ \E a \in Acts : EnsureFind(a)
  \/ \E a \in Acts : EnsureCreate(a)
  \/ \E a \in Acts : Persist(a)
  \/ \E a \in Acts : PersistWrite(a)
  \/ \E a \in Acts : SetupAlarms(a)
  \/ \E a \in Acts : SyncTabsValidate(a)
  \/ \E a \in Acts : SyncTabsAbsorb(a)
  \/ \E a \in Acts : SyncTabsLoop(a)
  \/ \E a \in Acts : SyncTabsRemove(a)
  \/ \E a \in Acts : SyncTabsPlaceholders(a)
  \/ \E a \in Acts : SyncTabsEnsure(a)
  \/ \E a \in Acts : SyncTabsPosition(a)
  \/ \E a \in Acts : SyncTabsVisibility(a)
  \/ \E a \in Acts : SyncTabsGroupGone(a)
  \/ \E a \in Acts : SfStamp(a)
  \/ \E a \in Acts : StampWrite(a)
  \/ \E a \in Acts : InitEnd(a)
  \/ \E a \in Acts : StartupAuth(a)
  \/ \E a \in Acts : OnAlarm(a)
  \/ \E a \in Acts : OnSetConfig(a)
  \/ \E a \in Acts : ConfigWrite(a)
  \/ \E a \in Acts : OnStartup(a)

SpecRound == InitRound /\ [][NextRound]_vars

--------------------------------------------------------------------------
(* The start alone: init() and its round, init() called again, and the     *)
(* user logging out meanwhile.                                             *)

\* init() is called: "if (this._initialized) return", else to ensureSettings()
CallInit(a) ==
  /\ FreeAct(a)
  /\ sf' = [sf EXCEPT ![a] = [IdleSf EXCEPT !.source = "init",
                               !.pc = IF initialized THEN "ended" ELSE "init_settings"]]
  /\ UNCHANGED <<settings, authenticated, authCheck, cookie, alarmSet, alarm, initialized,
                 nextGroupId>>
  /\ UNCHANGED tabVars
  /\ SfUnchanged

\* the steps the extension takes by itself, once init() has been called
InitSteps ==
  \/ AuthCheckResolves
  \/ \E a \in Acts : InitSettings(a)
  \/ \E a \in Acts : SfFetch(a)
  \/ \E a \in Acts : EnsureFind(a)
  \/ \E a \in Acts : EnsureCreate(a)
  \/ \E a \in Acts : Persist(a)
  \/ \E a \in Acts : PersistWrite(a)
  \/ \E a \in Acts : SetupAlarms(a)
  \/ \E a \in Acts : SyncTabsValidate(a)
  \/ \E a \in Acts : SyncTabsAbsorb(a)
  \/ \E a \in Acts : SyncTabsLoop(a)
  \/ \E a \in Acts : SyncTabsRemove(a)
  \/ \E a \in Acts : SyncTabsPlaceholders(a)
  \/ \E a \in Acts : SyncTabsEnsure(a)
  \/ \E a \in Acts : SyncTabsPosition(a)
  \/ \E a \in Acts : SyncTabsVisibility(a)
  \/ \E a \in Acts : SyncTabsGroupGone(a)
  \/ \E a \in Acts : SfStamp(a)
  \/ \E a \in Acts : StampWrite(a)
  \/ \E a \in Acts : InitEnd(a)

NextInit ==
  \/ InitSteps
  \/ \E a \in Acts : CallInit(a)
  \/ OnCookieChanged

SpecInit == InitRound /\ [][NextInit]_vars

\* Every await of the extension comes back: a step it can take is taken in
\* the end.
FairInit == SpecInit /\ WF_vars(InitSteps)

--------------------------------------------------------------------------
(* The rounds on Firefox: the bookmark folder, its title and the user      *)
(* renaming it.                                                            *)

\* the titles the user gives the folder
RenameTitles == {"Reviews"}

\* bookmarks.onChanged listener, on a change of the folder's title: the name
\* in the settings follows the title
OnFolderChanged(title, s) == IF s.name # title THEN [s EXCEPT !.name = title] ELSE s

\* the user renames the folder, once; the listener runs
UserRenamesFolder ==
  /\ env = "firefox"
  /\ folder.renamedTo = ""
  /\ \E title \in RenameTitles :
       /\ folder' = [title |-> title, renamedTo |-> title,
                     renamedAt |-> Cardinality({ a \in Acts : sf[a].pc # "idle" })]
       /\ settings' = OnFolderChanged(title, settings)
  /\ UNCHANGED <<bookmarks, nextBookmarkId, sb>>
  /\ UNCHANGED <<authenticated, authCheck, cookie, alarmSet, alarm, initialized, sf, nextGroupId>>
  /\ UNCHANGED <<env, calls, hist>>
  /\ UNCHANGED tabVars

\* syncFolder on Firefox: the alarm check, getFolder(), and the folder's title is set to the
\* name in the settings the round read when the two differ (the listener
\* runs on the change); then _syncBookmarks is called
SfFolder(a) ==
  /\ sf[a].pc = "folder"
  /\ LET name == sf[a].settings.name
         writes == name # "" /\ folder.title # name
     IN /\ folder' = IF writes THEN [folder EXCEPT !.title = name] ELSE folder
        /\ settings' = IF writes THEN OnFolderChanged(name, settings) ELSE settings
  /\ sb' = [IdleSb EXCEPT !.pc = "read", !.pullRequests = sf[a].pullRequests,
                          !.prNameFormat = DefaultPrNameFormat]
  /\ sf' = [sf EXCEPT ![a].pc = "bookmarks"]
  \* the alarm is checked before getFolder()
  /\ alarm' = AlarmCheck(alarm, sf[a].settings.refreshInterval)
  /\ UNCHANGED <<bookmarks, nextBookmarkId>>
  /\ UNCHANGED <<authenticated, authCheck, cookie, alarmSet, initialized, nextGroupId>>
  /\ UNCHANGED <<env, calls, hist>>
  /\ UNCHANGED tabVars

\* _syncBookmarks has returned: setSettings reads the stored settings
SfStampBookmarks(a) ==
  /\ sf[a].pc = "bookmarks"
  /\ sb.pc = "done"
  /\ sb' = IdleSb
  /\ sf' = [sf EXCEPT ![a].pc = "stamp_write", ![a].current = settings]
  /\ UNCHANGED <<bookmarks, nextBookmarkId, folder>>
  /\ UNCHANGED <<settings, authenticated, authCheck, cookie, alarmSet, alarm, initialized,
                 nextGroupId>>
  /\ UNCHANGED <<env, calls, hist>>
  /\ UNCHANGED tabVars

\* the alarm goes off when the round before it is over (its period is a
\* minute at least)
OnAlarmAlone(a) ==
  /\ \A b \in Acts : ~InSyncFolder(b)
  /\ OnAlarm(a)

\* the extension runs on Firefox: init() has made the folder, set the alarm
\* and run its round
InitFolder ==
  /\ env = "firefox"
  /\ hostDropsEmpty = FALSE
  /\ tabs = <<>>
  /\ groups = <<>>
  /\ nextTabId = 1
  /\ timers = {}
  /\ nextTimer = 1
  /\ tgh = [currentGroupId |-> NoGroup, baseTitle |-> "", resetTitleTimer |-> NoTimer,
            evicting |-> <<>>]
  /\ st = [a \in Acts |-> IdleSt]
  /\ calls = 0
  /\ hist = IdleHist
  /\ bookmarks \in { f \in Folders : Len(f) <= 1 }
  /\ nextBookmarkId = Len(bookmarks) + 1
  /\ sb = IdleSb
  /\ folder = Folder("PRs")
  /\ settings = [DEFAULT_SETTINGS EXCEPT !.name = "PRs"]
  /\ authenticated = TRUE
  /\ authCheck = FALSE
  /\ cookie = TRUE
  /\ alarmSet = 1
  /\ alarm = settings.refreshInterval
  /\ initialized = TRUE
  /\ sf = [a \in Acts |-> IdleSf]
  /\ nextGroupId = UserGroup + 1

NextFolder ==
  \/ \E a \in Acts : OnAlarmAlone(a)
  \/ \E a \in Acts : SfFetch(a)
  \/ \E a \in Acts : SfFolder(a)
  \/ SyncBookmarksRead
  \/ SyncBookmarksLoop
  \/ SyncBookmarksRemove
  \/ \E a \in Acts : SfStampBookmarks(a)
  \/ \E a \in Acts : StampWrite(a)
  \/ UserRenamesFolder

SpecFolder == InitFolder /\ [][NextFolder]_vars

--------------------------------------------------------------------------
(* The properties. *)

\* syncTabs has returned / has returned true
Returned == env = "chrome" /\ st[Direct].pc = "done"
ReturnedTrue == Returned /\ st[Direct].result
\* the step in which syncTabs returns
Returns == env = "chrome" /\ st[Direct].pc # "done" /\ st'[Direct].pc = "done"

Members == TabsOfGroup(tabs, PrGroup)
\* the URLs of the group's member tabs that are no placeholders
GroupUrls == { t.url : t \in Range(Members) } \ {NoUrl, AboutBlank}
\* the URLs of all the group's member tabs
MemberUrls == { t.url : t \in Range(Members) }

\* _syncBookmarks has returned
BookmarksReturned == env = "firefox" /\ sb.pc = "done"
\* the URLs of the folder's bookmarks that bear one
BookmarkUrls == { b.url : b \in Range(bookmarks) } \ {NoUrl}

\* a second call with the desired list of the first has returned
SecondReturned ==
  /\ hist.prevDone
  /\ \/ Returned /\ st[Direct].pullRequests = hist.prevDesired
     \/ BookmarksReturned /\ sb.pullRequests = hist.prevDesired

C2_BookmarkConvergence ==
  BookmarksReturned => BookmarkUrls = UrlsOf(sb.pullRequests)

C2_Witness ==
  /\ BookmarksReturned
  /\ sb.pullRequests # <<>>
  /\ \E e \in hist.prevEntries : e \notin BookmarkEntries(bookmarks)
  /\ \E e \in BookmarkEntries(bookmarks) : e \notin hist.prevEntries

C4_NonEmpty_AsStated ==
  ReturnedTrue =>
    /\ Len(Members) >= 1
    /\ st[Direct].pullRequests = <<>> => Len(Members) = 1 /\ Members[1].url = AboutBlank

\* C4: after syncTabs returns true the group has a member; with an empty
\* desired list its members are the placeholders and URL-less tabs it held
\* before the call, or one new placeholder when it held none.
C4_NonEmpty ==
  ReturnedTrue =>
    /\ Len(Members) >= 1
    /\ st[Direct].pullRequests = <<>> =>
         /\ \A t \in Range(Members) : t.url \in {AboutBlank, NoUrl}
         /\ Len(Members) = IF hist.blanksBefore = 0 THEN 1 ELSE hist.blanksBefore
         /\ hist.blanksBefore = 0 => Members[1].url = AboutBlank

C4_Witness ==
  /\ ReturnedTrue
  /\ st[Direct].pullRequests = <<>>
  /\ hist.blanksBefore = 0
  /\ hist.prevEntries # {}
  /\ Len(Members) = 1
  /\ Members[1].url = AboutBlank

C8_ShrinkToZero ==
  [][Returns /\ hist.prevDone /\ hist.prevResult /\ hist.prevDesired # <<>>
       /\ st[Direct].pullRequests = <<>>
     => /\ PrGroup \in DOMAIN groups'
        /\ Len(TabsOfGroup(tabs', PrGroup)) = 1
        /\ TabsOfGroup(tabs', PrGroup)[1].url = AboutBlank
        /\ groups'[PrGroup].collapsed]_vars

FairSpec == Spec /\ WF_vars(ResetTitleTimerFires)

\* the live group bears a title with a count
TransientTitle == PrGroup \in DOMAIN groups /\ groups[PrGroup].title # tgh.baseTitle

\* C10: once a title with a count is on the live group, the title is the
\* base title again in the end (or the group is gone), by the timer or by
\* the user expanding the group.
C10_TitleReverts ==
  TransientTitle ~> (PrGroup \notin DOMAIN groups \/ groups[PrGroup].title = tgh.baseTitle)

\* the title with the count has gone back to the base title
C10_Witness ==
  /\ Returned
  /\ st[Direct].result
  /\ Len(st[Direct].pullRequests) - st[Direct].previousPrCount > 0
  /\ hist.collapsedBefore
  /\ PrGroup \in DOMAIN groups
  /\ groups[PrGroup].collapsed
  /\ groups[PrGroup].title = tgh.baseTitle
  /\ timers = {}
  /\ nextTimer > 1

\* C11: a tab that syncTabs created and that resolved to no pull request's
\* URL (or to none within the wait) is closed: when syncTabs has returned it is
\* neither in the group nor open outside it.
C11_RedirectGuard ==
  Returned => \A id \in hist.guarded : id \notin TabIds(tabs)

\* a call met the guard on one item and kept the tab of the other
C11_Witness ==
  /\ ReturnedTrue
  /\ hist.guarded # {}
  /\ Len(st[Direct].pullRequests) = 2
  /\ Cardinality(GroupUrls) = 1
  /\ nextTabId > Len(tabs) + 1

\* C12: a call of syncTabs that leaves a tab other than a placeholder in the
\* group leaves the collapsed flag as it was when the call started; no step
\* of syncTabs expands the group, and a step collapses it only when all its
\* members are placeholders.
C12_CollapseIsUserIntent ==
  [][/\ Returns /\ st'[Direct].result
          /\ (\E t \in Range(TabsOfGroup(tabs', PrGroup)) : t.url # AboutBlank)
        => groups'[PrGroup].collapsed = hist.collapsedBefore
     /\ \A g \in DOMAIN groups \cap DOMAIN groups' :
          st' # st /\ groups'[g].collapsed # groups[g].collapsed
            => /\ groups'[g].collapsed
               /\ \A t \in Range(TabsOfGroup(tabs', g)) : t.url = AboutBlank]_vars

\* a call has changed the tabs of an expanded group, left a pull request's tab
\* in it, and the group is expanded still
C12_Witness ==
  /\ ReturnedTrue
  /\ GroupUrls # {}
  /\ EntriesOf(tabs, PrGroup) # hist.prevEntries
  /\ ~hist.collapsedBefore
  /\ ~groups[PrGroup].collapsed

\* C13: when the group id names no live group as syncTabs starts, syncTabs
\* returns false at once: no tab is created, grouped, moved or closed and no
\* group's title, colour or collapsed state is changed.
C13_ValidateFirst ==
  [][\A a \in Acts :
       st[a].pc = "validate" /\ st[a].groupId \notin DOMAIN groups /\ st'[a] # st[a]
         => /\ st'[a].pc = "done"
            /\ ~st'[a].result
            /\ tabs' = tabs
            /\ groups' = groups
            /\ nextTabId' = nextTabId
            /\ tgh' = tgh]_vars

\* the first call was made on a group that is gone, with a tab open that it
\* would have taken into the group: it has returned false and the tab is as
\* it was
C13_Witness ==
  /\ Returned
  /\ ~st[Direct].result
  /\ calls = 1
  /\ PrGroup \notin DOMAIN groups
  /\ hist.ungroupedStrays # {}
  /\ \A id \in hist.ungroupedStrays : TabById(tabs, id).groupId = TAB_GROUP_ID_NONE
  /\ nextTabId = Len(tabs) + 1

\* C15: in a round whose fetch of the pull requests failed, no tab that is in
\* the group is closed.
C15_FetchFailureKeepsEntries ==
  [][\A a \in Acts :
       sf[a].pc = "reconcile" /\ sf[a].fetchFailed /\ st'[a] # st[a]
         => \A t \in Range(TabsOfGroup(tabs, sf[a].groupId)) : t.id \in TabIds(tabs')]_vars

\* settings.lastPrCount, which LiveFolderConfig has no key for
PersistedItemCount(s) == IF "lastPrCount" \in DOMAIN s THEN s.lastPrCount ELSE Undefined

\* C16: when the user has renamed the bookmark folder, and the round that
\* was in flight then and the round after it are over, the folder's title
\* and the name in the settings are the title the user gave.
C16_RenamePreserved ==
  /\ folder.renamedTo # ""
  /\ folder.renamedAt < MaxRounds
  /\ \A a \in 1..(folder.renamedAt + 1) : sf[a].pc = "ended"
  => folder.title = folder.renamedTo /\ settings.name = folder.renamedTo

\* C17: a round that has come to its reconcile writes lastPrUpdate = now and
\* the count of the desired items to the settings, whatever syncTabs
\* returned.
C17_BestEffortAccounting ==
  [][\A a \in Acts :
       sf[a].pc = "stamp_write" /\ sf'[a].pc # "stamp_write"
         => /\ settings'.lastPrUpdate = Now(a)
            /\ PersistedItemCount(settings') = Len(sf[a].pullRequests)]_vars

\* C20: the round that SET_CONFIG starts reads the settings with the payload
\* in them: the payload is written before the round starts.
C20_SetConfigThenSync ==
  \A a \in Acts :
    /\ sf[a].source = "config" /\ sf[a].pc = "fetch" => settings.name = sf[a].payload
    /\ sf[a].source = "config" /\ InSyncFolder(a) /\ sf[a].pc # "fetch"
         => sf[a].settings.name = sf[a].payload

\* C18: the body of init() takes effect at most once, whatever calls of
\* init() are made: one onAlarm listener at most is registered, so that one
\* alarm makes one call of syncFolder at most.
C18_InitOnce == alarmSet <= 1

\* the extension has started: the alarm is set and a round has come to its
\* reconcile on the group init() ensured
StartupDone == alarmSet > 0 /\ \E a \in Acts : sf[a].nSync > 0

\* C19: when the user is authenticated as the extension starts, init() in
\* the end ensures the group, sets the alarm and runs a round (unless the
\* user logs out meanwhile).
C19_StartupLiveness == cookie => <>(StartupDone \/ ~cookie)

\* the round of the activation a is over
RoundOver(a) == sf[a].pc \in {"ended", "init_end", "startup_auth"}

\* C14: a round that finds the user unauthenticated when it checks again
\* (the flag at its start, the cookie read by getPullRequests) ends there: it
\* goes on to no write of a tab, a group, a bookmark or the settings.
C14_AuthGate ==
  [][\A a \in Acts :
       /\ sf'[a] # sf[a]
       /\ \/ sf[a].pc = "fetch" /\ ~cookie
          \/ sf[a].pc \in {"alarms", "config_write"} /\ ~authenticated
          \/ sf[a].pc = "idle" /\ sf'[a].source \in {"alarm", "startup"} /\ ~authenticated
       => /\ sf'[a].pc \in {"ended", "init_end", "startup_auth"}
          /\ tabs' = tabs /\ groups' = groups /\ bookmarks' = bookmarks
          /\ sf[a].pc # "config_write" => settings' = settings]_vars

\* the round of the activation a is over
\* the round of a started on a stored id that named no live group, and came
\* to ensureTabGroup
StaleRound(a) == sf[a].stale /\ sf[a].nEnsure > 0

C7_MutualExclusion ==
  Cardinality({ a \in Acts : InSyncFolder(a) }) <= 1

--------------------------------------------------------------------------
(* ConfigHandler alone: setSettings, ensureSettings and formatPrName are   *)
(* called on a store that holds any part of a settings record, or nothing. *)

\* a record the user has configured: no field has its default value
UserSettings ==
  [id |-> "f1", name |-> "PRs", refreshInterval |-> 5, prNameFormat |-> <<"%name%">>,
   lastPrUpdate |-> 9, tabGroupId |-> PrGroup, tabGroupColor |-> "red",
   prFilter |-> "assigned", organizationFilter |-> "acme"]

StoredRecords ==
  {Unstored} \cup { [k \in K |-> UserSettings[k]] : K \in SUBSET DOMAIN UserSettings }

\* the arguments of setSettings
Partials ==
  { [name |-> "Reviews"], [tabGroupId |-> 7], [lastPrUpdate |-> 3],
    [name |-> "Reviews", refreshInterval |-> 10], DEFAULT_SETTINGS }

\* the templates: the default, and one with repeated and unknown placeholders
Formats ==
  { DefaultPrNameFormat,
    <<"%name%", " ", "%name%", " #", "%number%", " ", "%author%", " ", "%repository%">> }

\* the pull requests that are rendered: a title is any text
TemplatePrs ==
  AllPrs \cup
  { [url |-> PrUrl("3"), name |-> "%number%", number |-> 7, repository_name |-> "core"],
    [url |-> PrUrl("4"), name |-> "$&", number |-> 8, repository_name |-> "core"],
    [url |-> PrUrl("5"), name |-> "Fix", number |-> 9, repository_name |-> "%name%"] }

NoCall ==
  [op |-> "", before |-> Unstored, partial |-> Unstored, format |-> <<>>,
   pr |-> CHOOSE pr \in AllPrs : TRUE, result |-> <<>>]

InitConfig ==
  /\ env = "chrome"
  /\ hostDropsEmpty = TRUE
  /\ tabs = <<>>
  /\ groups = [g \in {} |-> Group("", FALSE)]
  /\ nextTabId = 1
  /\ timers = {}
  /\ nextTimer = 1
  /\ tgh = [currentGroupId |-> NoGroup, baseTitle |-> "", resetTitleTimer |-> NoTimer,
            evicting |-> <<>>]
  /\ st = [a \in Acts |-> IdleSt]
  /\ calls = 0
  /\ hist = NoCall
  /\ bookmarks = <<>>
  /\ nextBookmarkId = 1
  /\ sb = IdleSb
  /\ folder = Folder("")
  /\ settings \in StoredRecords
  /\ authenticated = TRUE
  /\ authCheck = FALSE
  /\ cookie = TRUE
  /\ alarmSet = 0
  /\ alarm = NoAlarm
  /\ initialized = FALSE
  /\ sf = [a \in Acts |-> IdleSf]
  /\ nextGroupId = UserGroup + 1

ConfigUnchanged ==
  /\ UNCHANGED env
  /\ UNCHANGED tabVars
  /\ UNCHANGED bmVars
  /\ UNCHANGED <<authenticated, authCheck, cookie, alarmSet, alarm, initialized, sf, nextGroupId>>

\* await ConfigHandler.setSettings(partial), with no other writer
CallSetSettings ==
  /\ calls < MaxCalls
  /\ \E partial \in Partials :
       /\ settings' = setSettings(settings, partial)
       /\ hist' = [NoCall EXCEPT !.op = "setSettings", !.before = settings,
                                 !.partial = partial,
                                 !.result = setSettings(settings, partial)]
  /\ calls' = calls + 1
  /\ ConfigUnchanged

\* await ConfigHandler.ensureSettings()
CallEnsureSettings ==
  /\ calls < MaxCalls
  /\ settings' = ensureSettings(settings)
  /\ hist' = [NoCall EXCEPT !.op = "ensureSettings", !.before = settings,
                            !.result = IF hasAllKeys(getSettings(settings))
                                         THEN getSettings(settings)
                                         ELSE DEFAULT_SETTINGS]
  /\ calls' = calls + 1
  /\ ConfigUnchanged

\* ConfigHandler.formatPrName(format, pr)
CallFormatPrName ==
  /\ calls < MaxCalls
  /\ \E format \in Formats, pr \in TemplatePrs :
       hist' = [NoCall EXCEPT !.op = "formatPrName", !.format = format, !.pr = pr,
                              !.result = formatPrName(format, pr)]
  /\ calls' = calls + 1
  /\ UNCHANGED settings
  /\ ConfigUnchanged

NextConfig ==
  \/ CallSetSettings
  \/ CallEnsureSettings
  \/ CallFormatPrName

SpecConfig == InitConfig /\ [][NextConfig]_vars

\* C21: when setSettings(partial) has returned, every field named in partial
\* has the given value in the store, every field that is not named has the
\* value the store held for it before the call, no other field has appeared,
\* and the record returned is the record stored.
C21_SettingsMerge ==
  hist.op = "setSettings" =>
    /\ \A k \in DOMAIN hist.partial :
         k \in DOMAIN settings /\ settings[k] = hist.partial[k]
    /\ hist.before # Unstored =>
         /\ DOMAIN settings = DOMAIN hist.before \cup DOMAIN hist.partial
         /\ \A k \in DOMAIN hist.before \ DOMAIN hist.partial :
              settings[k] = hist.before[k]
    /\ hist.result = settings

\* setSettings has overwritten a field and has left another as it was
C21_Witness ==
  /\ hist.op = "setSettings"
  /\ hist.before # Unstored
  /\ \E k \in DOMAIN hist.before \cap DOMAIN hist.partial :
       hist.before[k] # hist.partial[k] /\ settings[k] = hist.partial[k]
  /\ \E k \in DOMAIN hist.before \ DOMAIN hist.partial :
       settings[k] = hist.before[k] /\ settings[k] # DEFAULT_SETTINGS[k]

\* the defaults the specification names
NamedDefaults ==
  [name |-> "Pull Requests", refreshInterval |-> 1,
   prNameFormat |-> <<"[", "%repository%", "] ", "%name%">>,
   tabGroupColor |-> "blue", prFilter |-> "both", organizationFilter |-> ""]

Rendered(format, pr) ==
  [k \in DOMAIN format |->
     CASE format[k] = "%repository%" -> pr.repository_name
       [] format[k] = "%name%" -> pr.name
       [] format[k] = "%number%" -> ToString(pr.number)
       [] OTHER -> format[k]]

\* C23: formatPrName(format, pr) is the template with every occurrence of
\* %repository%, %name% and %number% replaced by pr.repository_name, pr.name
\* and pr.number, and with all other text as it was.
C23_TemplateRendering ==
  hist.op = "formatPrName" => hist.result = Rendered(hist.format, hist.pr)

--------------------------------------------------------------------------
(* The tab listeners of TabGroupHandler (_setupTabListener) and the        *)
(* eviction they start (_ungroupAndPositionAfterGroup), with a user who    *)
(* navigates and opens tabs of the group before syncTabs is called, and    *)
(* closes tabs of the group while it runs.                                 *)

\* the tabs the window has held when the user opens one more, and the
\* evictions that are pending at one time
MaxWatchTabs == 3
MaxEvictions == 2

\* the URLs a member tab is navigated to: none shows a pull request
AwayUrls == {OtherUrl, LoginUrl}

\* a navigation: away from a pull request or a placeholder, and on from the
\* page it led to
Navigates(from, to) ==
  \/ to = OtherUrl /\ from \notin AwayUrls
  \/ to = LoginUrl /\ from = OtherUrl

\* chrome.tabs.ungroup(id): the tab leaves its group and stands at the edge
\* of the group it has left, the left or the right one
Ungroup(ts, id, side) ==
  LET t == TabById(ts, id)
      rest == RemoveTabs(ts, {id})
      S == { i \in DOMAIN rest : rest[i].groupId = t.groupId }
      first == CHOOSE i \in S : \A j \in S : i <= j
      out == [t EXCEPT !.groupId = TAB_GROUP_ID_NONE]
  IN IF t.groupId = TAB_GROUP_ID_NONE THEN ts
     ELSE IF S = {} THEN [i \in DOMAIN ts |-> IF ts[i].id = id THEN out ELSE ts[i]]
     ELSE IF side = "left" THEN InsertAt(rest, first - 1, out)
     ELSE InsertAt(rest, LastIndexOfGroup(rest, t.groupId), out)

\* _ungroupAndPositionAfterGroup(tabId): the tab strip it leaves.  maxIndex
\* is read from the group as it is before the tab is taken out; with no tab
\* in the group it is -Infinity and chrome.tabs.move rejects; on a tab that
\* is closed chrome.tabs.ungroup rejects; the errors are caught.
UngroupAndPositionAfterGroup(ts, currentGroupId, tabId, side) ==
  LET last == LastIndexOfGroup(ts, currentGroupId)
      maxIndex == last - 1
  IN IF currentGroupId = NoGroup THEN ts
     ELSE IF tabId \notin TabIds(ts) THEN ts
     ELSE IF last = 0 THEN Ungroup(ts, tabId, side)
     ELSE MoveTabs(Ungroup(ts, tabId, side), <<tabId>>, maxIndex + 1)

WatchUnchanged ==
  /\ UNCHANGED <<env, calls, hist>>
  /\ UNCHANGED <<hostDropsEmpty, nextTimer, timers, st>>
  /\ UNCHANGED bmVars
  /\ UNCHANGED roundVars

\* chrome.tabs.onUpdated listener: a tab of the current group has changed its
\* URL; when the new URL shows no pull request the eviction is started
TabUrlChanges ==
  /\ st[Direct].pc = "idle"
  /\ Len(tgh.evicting) < MaxEvictions
  /\ \E i \in DOMAIN tabs, url \in AwayUrls :
       /\ tabs[i].groupId = PrGroup
       /\ Navigates(tabs[i].url, url)
       /\ tabs' = [tabs EXCEPT ![i].url = url]
       /\ tgh' = IF tgh.currentGroupId # NoGroup /\ tabs[i].groupId = tgh.currentGroupId
                    /\ ~IsPrUrl(url)
                   THEN [tgh EXCEPT !.evicting = Append(@, tabs[i].id)]
                   ELSE tgh
  /\ UNCHANGED <<groups, nextTabId>>
  /\ WatchUnchanged

\* chrome.tabs.onCreated listener: the user has opened a tab in the current
\* group; 100 ms later its URL is read, and the eviction is started when it
\* shows neither a pull request nor about:blank
UserOpensTab ==
  /\ st[Direct].pc = "idle"
  /\ Len(tgh.evicting) < MaxEvictions
  /\ nextTabId <= MaxWatchTabs
  /\ PrGroup \in DOMAIN groups
  /\ \E url \in {OtherUrl, AboutBlank} :
       /\ tabs' = GroupTab(CreateTab(tabs, nextTabId, url), nextTabId, PrGroup)
       /\ tgh' = IF tgh.currentGroupId = PrGroup /\ ~IsPrUrl(url) /\ url # AboutBlank
                   THEN [tgh EXCEPT !.evicting = Append(@, nextTabId)]
                   ELSE tgh
  /\ nextTabId' = nextTabId + 1
  /\ UNCHANGED groups
  /\ WatchUnchanged

\* the user closes a tab of the group while syncTabs is running
UserClosesTab ==
  /\ st[Direct].pc \notin {"idle", "done"}
  /\ \E i \in DOMAIN tabs :
       /\ tabs[i].groupId = PrGroup
       /\ tabs' = RemoveTabs(tabs, {tabs[i].id})
       /\ groups' = DropEmptyGroups(RemoveTabs(tabs, {tabs[i].id}), groups)
  /\ UNCHANGED <<tgh, nextTabId>>
  /\ WatchUnchanged

\* the oldest pending _ungroupAndPositionAfterGroup runs
RunEviction ==
  /\ tgh.evicting # <<>>
  /\ \E side \in {"left", "right"} :
       LET left == UngroupAndPositionAfterGroup(tabs, tgh.currentGroupId,
                                                Head(tgh.evicting), side)
       IN /\ tabs' = left
          /\ groups' = DropEmptyGroups(left, groups)
  /\ tgh' = [tgh EXCEPT !.evicting = Tail(@)]
  /\ UNCHANGED nextTabId
  /\ WatchUnchanged

\* Chrome, with the group live and expanded; every tab shows a pull request,
\* in the group or to the right of it
InitWatch ==
  /\ InitTabs
  /\ hostDropsEmpty
  /\ PrGroup \in DOMAIN groups
  /\ ~groups[PrGroup].collapsed
  /\ \A i \in DOMAIN tabs :
       IsPrUrl(tabs[i].url) /\ tabs[i].groupId \in {PrGroup, TAB_GROUP_ID_NONE}

\* one call of syncTabs, with no count of new pull requests to show
WatchCallSyncTabs ==
  /\ calls = 0
  /\ CallSyncTabs
  /\ st'[Direct].previousPrCount = Len(st'[Direct].pullRequests)

NextWatch ==
  \/ WatchCallSyncTabs
  \/ \E a \in Acts : SyncTabsValidate(a)
  \/ \E a \in Acts : SyncTabsAbsorb(a)
  \/ \E a \in Acts : SyncTabsLoop(a)
  \/ \E a \in Acts : SyncTabsRemove(a)
  \/ \E a \in Acts : SyncTabsPlaceholders(a)
  \/ \E a \in Acts : SyncTabsEnsure(a)
  \/ \E a \in Acts : SyncTabsPosition(a)
  \/ \E a \in Acts : SyncTabsGroupGone(a)
  \/ \E a \in Acts : SyncTabsVisibility(a)
  \/ TabUrlChanges
  \/ UserOpensTab
  \/ UserClosesTab
  \/ RunEviction

SpecWatch == InitWatch /\ [][NextWatch]_vars

\* the step is a run of the eviction on the tab id
Evicts(id) ==
  /\ tgh.evicting # <<>>
  /\ Head(tgh.evicting) = id
  /\ tgh'.evicting = Tail(tgh.evicting)

IndexOf(ts, id) == CHOOSE i \in DOMAIN ts : ts[i].id = id

\* C24: syncTabs returns false only when the group id no longer resolves;
\* when a single remove call has failed the other stale tabs that were read
\* are closed all the same before the call returns.
C24_OnlyStaleContainerFails ==
  [][\A a \in Acts :
       st[a].pc \notin {"idle", "done"} /\ st'[a].pc = "done" =>
         /\ ~st'[a].result => st[a].groupId \notin DOMAIN groups'
         /\ st[a].pc = "loop" =>
              \A k \in DOMAIN st[a].tabs :
                IsTabToRemove(st[a].tabs[k], st[a].processedUrls) =>
                  st[a].tabs[k].id \notin TabIds(tabs')]_vars

\* C27: when the eviction runs on a tab that is a member of the current
\* group and the group keeps a member, the tab is out of the group and
\* stands at the index right after the group's last member.
C27_EvictionLandsAtTail ==
  [][\A id \in Range(tgh.evicting) :
       /\ Evicts(id)
       /\ id \in TabIds(tabs)
       /\ TabById(tabs, id).groupId = tgh.currentGroupId
       /\ \E t \in Range(tabs) : t.groupId = tgh.currentGroupId /\ t.id # id
       => /\ TabById(tabs', id).groupId = TAB_GROUP_ID_NONE
          /\ IndexOf(tabs', id) = LastIndexOfGroup(tabs', tgh.currentGroupId) + 1]_vars

\* C28: when the eviction runs on a tab that is closed or is no member of
\* the current group, no tab changes its group or its position.
C28_EvictionIdempotent ==
  [][\A id \in Range(tgh.evicting) :
       /\ Evicts(id)
       /\ \/ id \notin TabIds(tabs)
          \/ TabById(tabs, id).groupId # tgh.currentGroupId
       => tabs' = tabs]_vars

--------------------------------------------------------------------------
(* Calls of syncTabs that overlap, as the rounds of syncFolder do, with    *)
(* the count of the previous round passed.  The stretch that shows the     *)
(* count is taken await by await: the old timer is cleared and the title   *)
(* written (lines 268-276), and the new timer is set when the write has    *)
(* come back (line 287).                                                   *)

\* a call of syncTabs on any activation that is not running
CallSyncTabsOverlapping(a) ==
  /\ env = "chrome"
  /\ st[a].pc \in {"idle", "done"}
  /\ calls < MaxCalls
  /\ \E D \in DesiredLists, prev \in PrevCounts :
       st' = [st EXCEPT ![a] =
                [IdleSt EXCEPT !.pc = "validate", !.groupId = PrGroup,
                               !.pullRequests = D, !.previousPrCount = prev]]
  /\ calls' = calls + 1
  /\ UNCHANGED <<env, hist, hostDropsEmpty, tabs, groups, nextTabId, timers, nextTimer, tgh>>
  /\ UNCHANGED bmVars
  /\ UNCHANGED roundVars

\* the count is to be shown by the activation a
CountToShow(a) ==
  /\ st[a].pc = "visibility"
  /\ st[a].groupId \in DOMAIN groups
  /\ ShowsNewCount(AutoCollapse(st[a].remainingTabs) \/ groups[st[a].groupId].collapsed,
                   NewPrCount(Len(st[a].pullRequests), st[a].previousPrCount),
                   tgh.baseTitle)

\* the end of syncTabs when no count is shown
SyncTabsQuiet(a) ==
  /\ ~CountToShow(a)
  /\ SyncTabsVisibility(a)

\* clearTimeout(this._resetTitleTimer), then the title with the count is
\* written; the field keeps the handle that was cleared
SyncTabsShowCount(a) ==
  /\ CountToShow(a)
  /\ timers' = timers \ {tgh.resetTitleTimer}
  /\ groups' = UpdateGroupTitle([groups EXCEPT ![st[a].groupId].collapsed = TRUE],
                                st[a].groupId,
                                TitleWithCount(tgh.baseTitle,
                                  NewPrCount(Len(st[a].pullRequests), st[a].previousPrCount)))
  /\ st' = [st EXCEPT ![a].pc = "timer"]
  /\ UNCHANGED <<hostDropsEmpty, tabs, nextTabId, nextTimer, tgh>>
  /\ UNCHANGED <<env, calls, hist>>
  /\ UNCHANGED bmVars
  /\ UNCHANGED roundVars

\* this._resetTitleTimer = setTimeout(..., 30000), and syncTabs returns true
SyncTabsSetTimer(a) ==
  /\ st[a].pc = "timer"
  /\ timers' = timers \cup {nextTimer}
  /\ tgh' = [tgh EXCEPT !.resetTitleTimer = nextTimer]
  /\ nextTimer' = nextTimer + 1
  /\ st' = [st EXCEPT ![a].pc = "done", ![a].result = TRUE]
  /\ UNCHANGED <<hostDropsEmpty, tabs, groups, nextTabId>>
  /\ UNCHANGED <<env, calls, hist>>
  /\ UNCHANGED bmVars
  /\ UNCHANGED roundVars

\* Chrome, with the group as ensureTabGroup makes it: collapsed, with one
\* placeholder, which is the only tab
InitOverlap ==
  /\ InitTabs
  /\ hostDropsEmpty
  /\ PrGroup \in DOMAIN groups
  /\ groups[PrGroup].collapsed
  /\ Len(tabs) = 1
  /\ tabs[1].url = AboutBlank

NextOverlap ==
  \/ \E a \in Acts : CallSyncTabsOverlapping(a)
  \/ \E a \in Acts : SyncTabsValidate(a)
  \/ \E a \in Acts : SyncTabsAbsorb(a)
  \/ \E a \in Acts : SyncTabsLoop(a)
  \/ \E a \in Acts : SyncTabsRemove(a)
  \/ \E a \in Acts : SyncTabsPlaceholders(a)
  \/ \E a \in Acts : SyncTabsEnsure(a)
  \/ \E a \in Acts : SyncTabsPosition(a)
  \/ \E a \in Acts : SyncTabsGroupGone(a)
  \/ \E a \in Acts : SyncTabsQuiet(a)
  \/ \E a \in Acts : SyncTabsShowCount(a)
  \/ \E a \in Acts : SyncTabsSetTimer(a)
  \/ ResetTitleTimerFires
  \/ UserTogglesGroup

SpecOverlap == InitOverlap /\ [][NextOverlap]_vars

C26_VisibilityWatcher ==
  [][/\ tgh.currentGroupId = PrGroup
     /\ TransientTitle
     /\ groups[PrGroup].collapsed
     /\ PrGroup \in DOMAIN groups'
     /\ ~groups'[PrGroup].collapsed
     => /\ groups'[PrGroup].title = tgh.baseTitle
        /\ tgh.resetTitleTimer \notin timers'
        /\ timers' = {}
        /\ tgh'.resetTitleTimer = NoTimer]_vars

\* the user has expanded the group while it bore a count with its timer
\* pending: the title is the base title and no timer is left
C26_Witness ==
  /\ hist.expanded
  /\ nextTimer > 1
  /\ PrGroup \in DOMAIN groups
  /\ ~groups[PrGroup].collapsed
  /\ groups[PrGroup].title = tgh.baseTitle
  /\ timers = {}

\* C29: no step of syncTabs takes the last tab out of the group: a group
\* that has a member before a step of a running call has one after it.
C29_NeverEmptyMidReconcile ==
  [][\A a \in Acts :
       /\ st[a].pc \notin {"idle", "done"}
       /\ st'[a] # st[a]
       /\ TabsOfGroup(tabs, st[a].groupId) # <<>>
       => TabsOfGroup(tabs', st[a].groupId) # <<>>]_vars

\* the tabs of the group g that show a page: no placeholder, no tab without URL
EntryTabs(g) == SelectSeq(TabsOfGroup(tabs, g), LAMBDA t : t.url \notin {NoUrl, AboutBlank})

\* C30: no two entries of a group have the same URL, whatever rounds have
\* run, one after the other or overlapping.
C30_NoDuplicateEntries ==
  \A g \in DOMAIN groups :
    \A i, j \in DOMAIN EntryTabs(g) :
      EntryTabs(g)[i].url = EntryTabs(g)[j].url => i = j

--------------------------------------------------------------------------
(* positionGroupAfterPinnedTabs with pinned tabs in the window and a host  *)
(* whose chrome.tabs.move may take any of the moved tabs out of its group  *)
(* (the case the re-grouping loop of lines 455-476 is written for).        *)

\* the pinned tabs of the window
MaxPinned == 1

\* a faulty variant: the tabs the move has ungrouped are left ungrouped
Regroup_Skips(ts, gs, ids, g) == ts

\* "for (const tabId of tabIds)": a tab that is no longer in the group is
\* grouped again; chrome.tabs.group rejects when the group is gone, and the
\* error is caught for each tab
Regroup(ts, gs, ids, g) ==
  IF g \in DOMAIN gs
    THEN GroupTabs(ts, SelectSeq(ids, LAMBDA id : TabById(ts, id).groupId # g), g)
    ELSE ts

\* the strip after chrome.tabs.move(tabIds, {index}) has ungrouped the tabs loose
KnockedLoose(ts, loose) ==
  [i \in DOMAIN ts |-> IF ts[i].id \in loose
                         THEN [ts[i] EXCEPT !.groupId = TAB_GROUP_ID_NONE] ELSE ts[i]]

\* positionGroupAfterPinnedTabs(groupId), with the re-grouping after the move
SyncTabsPositionLoose(a) ==
  /\ st[a].pc = "position"
  /\ LET g == st[a].groupId
         targetPosition == Len(SelectSeq(tabs, LAMBDA t : t.pinned))
         groupTabs == TabsOfGroup(tabs, g)
         tabIds == IdsOf(groupTabs)
     IN IF Len(groupTabs) = 0 \/ IndexOf(tabs, groupTabs[1].id) - 1 = targetPosition
          THEN UNCHANGED <<tabs, groups>>
          ELSE \E loose \in SUBSET Range(tabIds) :
                 LET moved == KnockedLoose(MoveTabs(tabs, tabIds, targetPosition), loose)
                     gs1 == DropEmptyGroups(moved, groups)
                 IN /\ groups' = gs1
                    /\ tabs' = Regroup(moved, gs1, tabIds, g)
  /\ st' = [st EXCEPT ![a].pc = "visibility"]
  /\ UNCHANGED <<hostDropsEmpty, nextTabId, timers, nextTimer, tgh>>
  /\ UNCHANGED <<env, calls, hist>>
  /\ UNCHANGED bmVars
  /\ UNCHANGED roundVars

PinnedTab(id) == [id |-> id, url |-> OtherUrl, groupId |-> TAB_GROUP_ID_NONE, pinned |-> TRUE]

\* the window: the pinned tabs at the left, then an arrangement
InitPosition ==
  /\ env = "chrome"
  /\ hostDropsEmpty \in BOOLEAN
  /\ \E arr \in Arrangements, n \in 0..MaxPinned :
       tabs = [i \in 1..n |-> PinnedTab(Len(arr) + i)] \o arr
  /\ \E live \in SUBSET {PrGroup}, collapsed \in BOOLEAN :
       /\ \A i \in DOMAIN tabs : tabs[i].groupId = PrGroup => PrGroup \in live
       /\ hostDropsEmpty /\ PrGroup \in live => \E i \in DOMAIN tabs : tabs[i].groupId = PrGroup
       /\ groups = [g \in (live \cup { tabs[i].groupId : i \in DOMAIN tabs }) \ {TAB_GROUP_ID_NONE}
                      |-> IF g = PrGroup THEN Group("PRs", collapsed) ELSE Group("mine", FALSE)]
  /\ nextTabId = Len(tabs) + 1
  /\ timers = {}
  /\ nextTimer = 1
  /\ tgh = [currentGroupId |-> PrGroup, baseTitle |-> "PRs", resetTitleTimer |-> NoTimer,
            evicting |-> <<>>]
  /\ st = [a \in Acts |-> IdleSt]
  /\ calls = 0
  /\ hist = IdleHist
  /\ bookmarks = <<>>
  /\ nextBookmarkId = 1
  /\ sb = IdleSb
  /\ folder = Folder("")
  /\ RoundsIdle

\* one call of syncTabs
PositionCallSyncTabs ==
  /\ calls = 0
  /\ CallSyncTabs

NextPosition ==
  \/ PositionCallSyncTabs
  \/ \E a \in Acts : SyncTabsValidate(a)
  \/ \E a \in Acts : SyncTabsAbsorb(a)
  \/ \E a \in Acts : SyncTabsLoop(a)
  \/ \E a \in Acts : SyncTabsRemove(a)
  \/ \E a \in Acts : SyncTabsPlaceholders(a)
  \/ \E a \in Acts : SyncTabsEnsure(a)
  \/ \E a \in Acts : SyncTabsPositionLoose(a)
  \/ \E a \in Acts : SyncTabsGroupGone(a)
  \/ \E a \in Acts : SyncTabsVisibility(a)

SpecPosition == InitPosition /\ [][NextPosition]_vars

\* C31: when syncTabs has returned true, the group's tabs stand at
\* consecutive indices that start at the number of pinned tabs, and every tab
\* that was in the group before positionGroupAfterPinnedTabs is in it still.
C31_PositionalHousekeeping ==
  ReturnedTrue =>
    LET pinned == Len(SelectSeq(tabs, LAMBDA t : t.pinned))
    IN /\ \A i \in DOMAIN tabs :
            tabs[i].groupId = PrGroup <=> (i > pinned /\ i <= pinned + Len(Members))
       /\ \A k \in DOMAIN st[Direct].remainingTabs :
            /\ st[Direct].remainingTabs[k].id \in TabIds(tabs)
            /\ TabById(tabs, st[Direct].remainingTabs[k].id).groupId = PrGroup

\* syncTabs has returned true on a window with a pinned tab, after the group
\* was moved to the left of a tab that stood between the pinned tab and it
C31_Witness ==
  /\ ReturnedTrue
  /\ Len(tabs) >= 3
  /\ tabs[1].pinned
  /\ tabs[2].groupId = PrGroup
  /\ \E i \in DOMAIN tabs : i > 2 /\ tabs[i].url = OtherUrl /\ tabs[i].groupId = TAB_GROUP_ID_NONE

\* the place of the item with the URL url in the desired list D
PlaceIn(D, url) == CHOOSE k \in DOMAIN D : D[k].url = url

\* the tabs of the group that the running or last call of syncTabs created
\* for desired items: they were not in the group when the call read it
CreatedTabs ==
  { t \in Range(Members) :
      /\ t.url \in UrlsOf(st[Direct].pullRequests)
      /\ t.id \notin TabIds(st[Direct].tabs) }

\* the same for the bookmarks of the folder
CreatedBookmarks ==
  { b \in Range(bookmarks) :
      /\ b.url \in UrlsOf(sb.pullRequests)
      /\ b.id \notin { sb.existingBookmarks[k].id : k \in DOMAIN sb.existingBookmarks } }

\* C32: within one reconcile call the entries are created in the order of
\* the desired list: of two entries the call has created, the one whose item
\* comes first in D was created first (it has the lower id).
C32_CreationOrder ==
  /\ env = "chrome" /\ st[Direct].pc \notin {"idle", "validate", "absorb"} =>
       \A t, u \in CreatedTabs :
         PlaceIn(st[Direct].pullRequests, t.url) < PlaceIn(st[Direct].pullRequests, u.url)
           => t.id < u.id
  /\ env = "firefox" /\ sb.pc \in {"loop", "done"} =>
       \A b, c \in CreatedBookmarks :
         PlaceIn(sb.pullRequests, b.url) < PlaceIn(sb.pullRequests, c.url)
           => b.id < c.id

\* syncTabs has returned after it created a tab for each of two desired items
C32_Witness ==
  /\ ReturnedTrue
  /\ Len(st[Direct].pullRequests) = 2
  /\ Cardinality({ t.url : t \in CreatedTabs }) = 2

\* C33: when _syncBookmarks has completed, every bookmark of the folder with
\* a desired item's URL bears the title formatPrName gives for the item.
C33_KeptTitles ==
  BookmarksReturned =>
    \A k \in DOMAIN bookmarks :
      bookmarks[k].url \in UrlsOf(sb.pullRequests) =>
        bookmarks[k].title =
          formatPrName(sb.prNameFormat,
                       sb.pullRequests[PlaceIn(sb.pullRequests, bookmarks[k].url)])

--------------------------------------------------------------------------
(* The timer and the settings: init() is over on Chrome, the alarm runs    *)
(* and the settings form sends a new refresh interval.                     *)

\* the refresh intervals the settings form can send
ConfigIntervals == {5}

\* the message SET_CONFIG with a refresh interval: setSettings(message.data)
\* reads the stored settings
OnSetConfigInterval(a) ==
  /\ FreeAct(a)
  /\ \E interval \in ConfigIntervals :
       sf' = [sf EXCEPT ![a] = [IdleSf EXCEPT !.pc = "interval_write", !.source = "config",
                                             !.payload = interval, !.current = settings]]
  /\ UNCHANGED <<settings, authenticated, authCheck, cookie, alarmSet, alarm, initialized,
                 nextGroupId>>
  /\ UNCHANGED tabVars
  /\ SfUnchanged

\* setSettings(message.data) writes what it read with the interval put in;
\* then the handler calls syncFolder
ConfigWriteInterval(a) ==
  /\ sf[a].pc = "interval_write"
  /\ settings' = Merged(sf[a].current, [refreshInterval |-> sf[a].payload])
  /\ sf' = [sf EXCEPT ![a] = [StartRound(a, "config") EXCEPT
                                !.stale = settings'.tabGroupId \notin DOMAIN groups,
                                !.current = DEFAULT_SETTINGS]]
  /\ UNCHANGED <<authenticated, authCheck, cookie, alarmSet, alarm, initialized, nextGroupId>>
  /\ UNCHANGED tabVars
  /\ SfUnchanged

\* init() is over: the group is there with its placeholder, its id is
\* stored, and the alarm is set with the stored interval
InitAlarm ==
  /\ env = "chrome"
  /\ hostDropsEmpty = TRUE
  /\ tabs = <<Tab(1, AboutBlank, PrGroup)>>
  /\ groups = [g \in {PrGroup} |-> Group("PRs", TRUE)]
  /\ nextTabId = 2
  /\ timers = {}
  /\ nextTimer = 1
  /\ tgh = [currentGroupId |-> PrGroup, baseTitle |-> "PRs", resetTitleTimer |-> NoTimer,
            evicting |-> <<>>]
  /\ st = [a \in Acts |-> IdleSt]
  /\ calls = 0
  /\ hist = IdleHist
  /\ bookmarks = <<>>
  /\ nextBookmarkId = 1
  /\ sb = IdleSb
  /\ folder = Folder("")
  /\ settings = [DEFAULT_SETTINGS EXCEPT !.name = "PRs", !.tabGroupId = PrGroup]
  /\ authenticated = TRUE
  /\ authCheck = FALSE
  /\ cookie = TRUE
  /\ alarmSet = 1
  /\ alarm = settings.refreshInterval
  /\ initialized = TRUE
  /\ sf = [a \in Acts |-> IdleSf]
  /\ nextGroupId = UserGroup + 1

NextAlarm ==
  \/ \E a \in Acts : OnAlarm(a)
  \/ \E a \in Acts : OnSetConfigInterval(a)
  \/ \E a \in Acts : ConfigWriteInterval(a)
  \/ \E a \in Acts : SfFetch(a)
  \/ \E a \in Acts : EnsureFind(a)
  \/ \E a \in Acts : EnsureCreate(a)
  \/ \E a \in Acts : Persist(a)
  \/ \E a \in Acts : PersistWrite(a)
  \/ \E a \in Acts : SyncTabsValidate(a)
  \/ \E a \in Acts : SyncTabsAbsorb(a)
  \/ \E a \in Acts : SyncTabsLoop(a)
  \/ \E a \in Acts : SyncTabsRemove(a)
  \/ \E a \in Acts : SyncTabsPlaceholders(a)
  \/ \E a \in Acts : SyncTabsEnsure(a)
  \/ \E a \in Acts : SyncTabsPosition(a)
  \/ \E a \in Acts : SyncTabsVisibility(a)
  \/ \E a \in Acts : SyncTabsGroupGone(a)
  \/ \E a \in Acts : SfStamp(a)
  \/ \E a \in Acts : StampWrite(a)

SpecAlarm == InitAlarm /\ [][NextAlarm]_vars

\* a round of the activation a has run to its end, past the fetch step
PastFetch(a) == sf[a].pc = "ended" /\ sf[a].nSync > 0

\* C34: when no round is running and some round has passed the fetch step,
\* the period of the live alarm is the refreshInterval of the stored settings.
C34_TimerFollowsSettings ==
  /\ \A a \in Acts : sf[a].pc \in {"idle", "ended"}
  /\ \E a \in Acts : PastFetch(a)
  => alarm = settings.refreshInterval

--------------------------------------------------------------------------
(* The count in the title and the redirect guard.                          *)

\* the items of the desired list that have a tab in the group
PresentItems == UrlsOf(st[Direct].pullRequests) \cap GroupUrls

--------------------------------------------------------------------------
(* The cookie and the cached flag: the user logs in and out, clears the    *)
(* cookie, other cookies change.                                           *)

\* isAuthCookie(cookie): the cookie logged_in of .github.com
isAuthCookie(name) == name = "logged_in"

\* updateAuthState(newAuthState)
updateAuthState(isAuthenticated, newAuthState) ==
  IF newAuthState # isAuthenticated THEN newAuthState ELSE isAuthenticated

\* the change events of the cookie store: the user logs in (logged_in=yes is
\* set), logs out (logged_in=no takes its place), logged_in=yes is removed
\* (the event bears the cookie that was removed), another cookie is set
CookieEvents ==
  { [name |-> "logged_in", value |-> "yes", removed |-> FALSE],
    [name |-> "logged_in", value |-> "no", removed |-> FALSE],
    [name |-> "logged_in", value |-> "yes", removed |-> TRUE],
    [name |-> "_gh_sess", value |-> "yes", removed |-> FALSE] }

\* whether logged_in=yes is in the store after the change
StoredAfter(has, event) ==
  IF event.name = "logged_in" THEN ~event.removed /\ event.value = "yes" ELSE has

\* cookies.onChanged listener, "async ({ cookie }) =>": the event's "removed"
\* is not looked at
CookieChanges ==
  /\ \E event \in CookieEvents :
       \* logged_in=yes is set when it is not there, replaced or removed when it is
       /\ event.name = "logged_in" => (cookie <=> (event.removed \/ event.value = "no"))
       /\ cookie' = StoredAfter(cookie, event)
       /\ authenticated' =
            IF isAuthCookie(event.name)
              THEN updateAuthState(authenticated, isAuthenticatedFromCookie(event.value))
              ELSE authenticated
  /\ UNCHANGED <<settings, authCheck, alarmSet, alarm, initialized, sf, nextGroupId>>
  /\ UNCHANGED tabVars
  /\ SfUnchanged

\* the extension has been loaded where it has run before, with the user
\* logged out: the settings are stored, the group of the last session is gone
InitLogin ==
  /\ InitRound
  /\ hostDropsEmpty
  /\ settings # DEFAULT_SETTINGS
  /\ ~cookie

NextLogin ==
  \/ InitSteps
  \/ CookieChanges
  \/ \E a \in Acts : OnAlarm(a)

SpecLogin == InitLogin /\ [][NextLogin]_vars

\* Every await of the extension comes back, and an alarm that is set goes off.
FairLogin == SpecLogin /\ WF_vars(InitSteps) /\ WF_vars(\E a \in Acts : OnAlarm(a))

\* init() has come to its end without the user authenticated, and the user
\* is logged in now
LoggedInAfterInit ==
  /\ initialized
  \* the constructor's look at the cookies is over
  /\ ~authCheck
  \* _setupAlarms has not been called
  /\ alarmSet = 0
  /\ cookie
  /\ authenticated

\* C36: when init() has ended unauthenticated and the user logs in later, a
\* round runs in the end and reconciles the group (or the user has logged
\* out again).
C36_LoginPickedUp ==
  LoggedInAfterInit ~> (~cookie \/ \E a \in Acts : sf[a].nSync > 0)

\* C37: once a change of the logged_in cookie has been handled, the cached
\* flag is true exactly when logged_in=yes is in the store.
C37_AuthTracksCookie ==
  [][cookie' # cookie => authenticated' = cookie']_vars

--------------------------------------------------------------------------
(* ensureSettings and what is stored.                                      *)

\* C38: when ensureSettings() has returned, every field of the settings that
\* was stored before the call has the value it had before the call.
C38_EnsureSettingsPreserves ==
  hist.op = "ensureSettings" =>
    \A k \in DOMAIN hist.before \cap DOMAIN DEFAULT_SETTINGS :
      /\ k \in DOMAIN getSettings(settings)
      /\ getSettings(settings)[k] = hist.before[k]

--------------------------------------------------------------------------
(* formatPrName and fields that hold the text of a placeholder.            *)

Placeholders == {"%repository%", "%name%", "%number%"}

\* C40: when a field of the pull request holds the text of a placeholder,
\* formatPrName puts the field in as it is: where the template has
\* %repository% the result has pr.repository_name, where it has %name% the
\* result has pr.name, and the text put in is not searched again.
C40_SimultaneousSubstitution ==
  /\ hist.op = "formatPrName"
  /\ hist.pr.repository_name \in Placeholders \/ hist.pr.name \in Placeholders
  => \A k \in DOMAIN hist.format :
       /\ hist.format[k] = "%repository%" => hist.result[k] = hist.pr.repository_name
       /\ hist.format[k] = "%name%" => hist.result[k] = hist.pr.name

--------------------------------------------------------------------------
(* Two calls of setSettings that overlap.                                  *)

\* the rename listener has written the name while the closing setSettings of
\* the round a stood between its read and its write
RenamedWhileStamping(a) ==
  /\ sf[a].pc = "stamp_write"
  /\ folder.renamedTo # ""
  /\ settings.name = folder.renamedTo
  /\ sf[a].current.name # folder.renamedTo

\* C39: when the rename listener's setSettings({name}) has run while a
\* round's setSettings({lastPrUpdate}) was between its read and its write,
\* then after the round's write the settings hold both the name the listener
\* wrote and the time the round wrote.
C39_NoLostWrite ==
  [][\A a \in Acts :
       RenamedWhileStamping(a) /\ sf'[a].pc # "stamp_write"
         => /\ settings'.name = folder.renamedTo
            /\ settings'.lastPrUpdate = Now(a)]_vars

=============================================================================
